---- MODULE Spec2Model ----
(***************************************************************************)
(* Model of the frame-accurate animation compositor of the text-reveal     *)
(* renderer: the frame loops of renderSegmentToStream and                  *)
(* renderTimelineToStream, the encoder process they feed through           *)
(* renderVideo / renderTimeline, and the per-frame draw decisions.         *)
(*                                                                         *)
(* Numbers.  Times are rationals in the code (IEEE doubles).  The model    *)
(* keeps them exact as integer fractions: seconds are carried in tenths,   *)
(* progress / opacity / offsets as normalised pairs <<num, den>>, the      *)
(* shake trauma in thousandths (rounded down on every decay).              *)
(***************************************************************************)
EXTENDS Integers, Sequences, FiniteSets, TLC

(***************************************************************************)
(* Bounds of the model.                                                    *)
(***************************************************************************)
MaxLen == 4          \* raw text: at most this many tokens
MaxFps == 10         \* largest frame rate tried
MaxExitCode == 1     \* encoder exit codes 0..MaxExitCode
MaxExisting == 2     \* files base, base_1 .. base_MaxExisting may pre-exist
MaxRuns == 3         \* sequential renders to one requested path
MaxFontCalls == 3    \* calls of loadFonts in one process
MaxProbe == 5        \* frames 0..MaxProbe are compared across two renders

(***************************************************************************)
(* Program constants.                                                      *)
(***************************************************************************)
YieldEvery == 10             \* if (f % 10 === 0) await setImmediate
DefaultCharsPerSecond == 10  \* charsPerSecond = 10 (destructuring default)
DefaultRevealFrames == 3     \* revealFrames = 3
DefaultRevealOffsetPx == 18  \* revealOffsetPx = 18
DefaultEndHoldTenths == 15   \* config.endHold || 1.5, in tenths of a second
DefaultGlitchSpeedPct == 50  \* config.glitchSpeed || 0.5, in hundredths

(***************************************************************************)
(* Small arithmetic.                                                       *)
(***************************************************************************)
Min(a, b) == IF a <= b THEN a ELSE b
Max(a, b) == IF a >= b THEN a ELSE b
Abs(a) == IF a < 0 THEN -a ELSE a
FloorDiv(a, b) == a \div b               \* Math.floor(a / b), b > 0
CeilDiv(a, b) == -((-a) \div b)          \* Math.ceil(a / b), b > 0

\* Euclid's algorithm.  (The helpers below are functions, not operators, so
\* that their arguments are evaluated once.)
GcdOf[a \in Nat, b \in Nat] == IF b = 0 THEN a ELSE GcdOf[b, a % b]
Gcd(a, b) == GcdOf[a, b]

Reduced[n \in Int, d \in Nat, g \in Nat] ==
    IF g = 0 THEN <<0, 1>> ELSE <<n \div g, d \div g>>

\* A rational as a normalised pair <<num, den>>, den > 0.
Rat(n, d) == Reduced[n, d, Gcd(Abs(n), d)]
RatZero == <<0, 1>>
RatOne == <<1, 1>>

\* An optional config field: {} when absent (JS undefined), {v} when set.
Absent == {}
Some(v) == {v}
Val(o) == CHOOSE v \in o : TRUE
\* destructuring default  `x = d`: only undefined takes the default
Default(o, d) == IF o = Absent THEN d ELSE Val(o)
\* `x || d`: undefined and every falsy number (0) take the default
OrElse(o, d) == IF o = Absent \/ Val(o) = 0 THEN d ELSE Val(o)

(***************************************************************************)
(* Text.  A raw text is a sequence of tokens: characters and inline colour *)
(* tags.  extractTextAndColors strips the tags; the layout collaborator    *)
(* returns one Character per character of the text it is given, indexed    *)
(* from 0 in order of appearance.                                          *)
(***************************************************************************)
Tag == "<c>"
RawToken(i) == IF i = 2 THEN Tag ELSE IF i % 3 = 0 THEN " " ELSE "a"
RawTexts == { [i \in 1..n |-> RawToken(i)] : n \in 0..MaxLen }

IsChar(t) == t # Tag
extractTextAndColors(rawText) == SelectSeq(rawText, IsChar)

substring(text, n) == SubSeq(text, 1, Min(Max(n, 0), Len(text)))

getFlatCharacterPositions(layoutText) ==
    [i \in 1..Len(layoutText) |-> [index |-> i - 1, char |-> layoutText[i]]]

\* charToDraw.trim().length > 0
IsBlank(ch) == ch = " "

(***************************************************************************)
(* Reveal clock of the single-block renderer.                              *)
(***************************************************************************)
\* the reveal clock without its clamp to the text length
VisibleCount_Unclamped(frame, fps, cps, totalChars) == FloorDiv(frame * cps, fps)

\* Math.min(totalChars, Math.floor((f / fps) * charsPerSecond))
VisibleCount(frame, fps, cps, totalChars) ==
    Min(totalChars, FloorDiv(frame * cps, fps))

\* Math.ceil((totalChars / charsPerSecond + (config.endHold || 1.5)) * fps)
TotalFrames(totalChars, cps, endHold, fps) ==
    LET hold == OrElse(endHold, DefaultEndHoldTenths)
        num == (10 * totalChars + hold * cps) * fps
        den == 10 * cps
    IN  IF den > 0 THEN CeilDiv(num, den) ELSE CeilDiv(-num, -den)

(***************************************************************************)
(* Shake.  Trauma in thousandths.                                          *)
(***************************************************************************)
\* a trauma that never decays
Decay_Never(trauma) == trauma

Decay(trauma) == (trauma * 9) \div 10                 \* shakeTrauma *= 0.9

ResetsTrauma(visibleCount, lastCount, jitter) ==
    visibleCount # lastCount /\ visibleCount > 0 /\ jitter > 0

\* a recoil of fixed strength on every newly revealed character
NextTrauma_FixedRecoil(trauma, visibleCount, lastCount, jitter) ==
    IF visibleCount # lastCount /\ visibleCount > 0
      THEN 1000
      ELSE Decay(trauma)

NextTrauma(trauma, visibleCount, lastCount, jitter) ==
    IF ResetsTrauma(visibleCount, lastCount, jitter)
      THEN jitter * 1000
      ELSE Decay(trauma)

Shakes(trauma) == trauma > 500                        \* shakeTrauma > 0.5

\* (Math.random() - 0.5) * shakeTrauma * 2, Math.random() given in tenths
ShakeOffset(rand, trauma) == ((rand - 5) * trauma * 2) \div 10

\* Values Math.random() may return, in tenths.
RandVals == {0, 9}

(***************************************************************************)
(* Per-character reveal.                                                   *)
(***************************************************************************)
\* easeOutCubic(t) = 1 - (1 - t)^3, t = <<n, d>>
Cube[n \in Int] == n * n * n
EaseOf[n \in Int, d \in Nat] == Rat(Cube[d] - Cube[d - n], Cube[d])
easeOutCubic(t) == EaseOf[t[1], t[2]]

\* progress = (f + sampleProgress - startFrame) / revealFrames with
\* startFrame = (index / charsPerSecond) * fps and sampleProgress = -(s / samples)
Progress(frame, s, samples, index, cps, fps, revealFrames) ==
    Rat((frame * samples - s) * cps - index * fps * samples,
        revealFrames * cps * samples)

CharsetLen(name) ==
    IF name = Some("letters") THEN 52
    ELSE IF name = Some("numbers") THEN 10
    ELSE IF name = Some("mixed") THEN 74
    ELSE 20

\* frac(Math.sin(phase) * 10000) and frac(Math.cos(phase) * 10000), in
\* millionths (rounded down), for phase = 0, 1, 2, ...
Seed1Table ==
    << 0, 709848, 974268, 200080, 975046, 757253, 845018, 865987,
       582466, 184852, 788891, 97934, 270819, 670368, 73556, 878401,
       966833, 25081, 127532, 772096, 452507, 556385, 486907, 795958,
       216379, 482499, 584504, 759284, 57883, 661157, 683759, 623546,
       266812, 118601, 826861, 173305, 211465, 618666, 685787, 953862,
       131604, 773311, 784520, 252573, 19251, 35245, 883476, 731227,
       453386, 473472, 251462, 291758, 275920, 251501, 109511, 448266,
       489979, 647552, 726480, 380071, 893788, 822299, 193033, 557003,
       260381, 286794, 488459, 800210, 723193, 151862, 906815, 546532,
       233627, 280431, 537395, 183645, 76368, 201585, 784559, 873312,
       113460, 120057, 287824, 644611, 903200, 243800, 415529, 821633,
       983027, 694058, 966636, 875117, 339303, 178587, 480145, 617147,
       877454, 77390, 181280, 931658, 343588, 257871, 267913, 886314,
       775968, 647164, 574999, 817445, 185054, 426066, 573219, 485513,
       43956, 180941, 803886, 353340, 613933, 20590, 478309, 958985,
       111842, 152247, 131538, 965093, 130131, 595408, 908256, 300672 >>

Seed2Table ==
    << 0, 23058, 531634, 75033, 563791, 621854, 702866, 22543,
       999661, 697381, 284709, 256979, 539587, 467814, 372182, 120871,
       405196, 366619, 167082, 46181, 820618, 707397, 391736, 669796,
       790073, 28118, 193223, 611912, 941336, 424703, 514498, 423578,
       233605, 232527, 297252, 77949, 363103, 140519, 736440, 429323,
       619383, 607224, 146850, 133015, 433086, 219888, 220551, 645308,
       556605, 925437, 660284, 541968, 92192, 172137, 901671, 267562,
       201077, 668269, 801354, 197770, 870195, 983640, 71623, 965815,
       572304, 461487, 525440, 302002, 430224, 903797, 192030, 772718,
       494117, 72817, 173418, 512697, 313311, 249682, 969067, 290532,
       127561, 859820, 776978, 401179, 765044, 233566, 15550, 503342,
       732836, 770449, 263838, 325390, 555520, 287015, 593666, 735609,
       695507, 524634, 117547, 208803, 188722, 48697, 857036, 691101,
       319892, 409507, 865509, 795820, 95977, 978210, 791866, 556808,
       691044, 666362, 206125, 901947, 78093, 28032, 294205, 713207,
       809705, 363907, 329089, 310933, 237954, 145121, 841391, 591020 >>

\* Math.floor(f * speed + index * 13.37), speed in hundredths
GlitchPhase(frame, index, speedPct) ==
    FloorDiv(frame * speedPct + index * 1337, 100)

Seed1(phase) == Seed1Table[phase + 1]
Seed2(phase) == Seed2Table[phase + 1]

\* cSet[Math.floor(seed1 * cSet.length)]
GlitchGlyph(frame, index, speedPct, charset) ==
    [set |-> charset,
     at |-> FloorDiv(Seed1(GlitchPhase(frame, index, speedPct)) * CharsetLen(charset),
                     1000000)]

\* (seed2 - 0.5) * 6
GlitchOffset(frame, index, speedPct) ==
    Rat((Seed2(GlitchPhase(frame, index, speedPct)) - 500000) * 6, 1000000)

(***************************************************************************)
(* Configurations tried.                                                   *)
(***************************************************************************)
FpsVals == {2, MaxFps}
CpsVals == {Absent, Some(2)}
EndHoldVals == {Absent, Some(0), Some(5)}        \* tenths of a second
Effects ==
    { [animationStyle |-> Absent, glitchCharset |-> Absent,
       glitchSpeed |-> Absent, jitter |-> 0],
      [animationStyle |-> Some("default"), glitchCharset |-> Absent,
       glitchSpeed |-> Absent, jitter |-> 1],
      [animationStyle |-> Some("typewriter"), glitchCharset |-> Absent,
       glitchSpeed |-> Absent, jitter |-> 0],
      [animationStyle |-> Some("glitch"), glitchCharset |-> Absent,
       glitchSpeed |-> Absent, jitter |-> 0],
      [animationStyle |-> Some("glitch"), glitchCharset |-> Some("numbers"),
       glitchSpeed |-> Some(100), jitter |-> 0] }

Config(raw, fps, cps, hold, fx, total) ==
    [rawText |-> raw, fps |-> fps, charsPerSecond |-> cps, endHold |-> hold,
     totalDuration |-> total,
     revealFrames |-> Absent, revealOffsetPx |-> Absent,
     animationStyle |-> fx.animationStyle, glitchCharset |-> fx.glitchCharset,
     glitchSpeed |-> fx.glitchSpeed, jitter |-> fx.jitter,
     width |-> 4, height |-> 2, paddingRatio |-> Absent, isPreview |-> FALSE,
     motionBlur |-> Absent, chroma |-> Absent, showCursor |-> FALSE,
     cursorSpeed |-> Absent, exportFormat |-> Absent]

\* the same render on another canvas; paddingRatio in hundredths
Sized(c, width, height, padding, preview) ==
    [c EXCEPT !.width = width, !.height = height, !.paddingRatio = padding,
              !.isPreview = preview]

\* the same render with compositing effects: motionBlur in hundredths, chroma
\* in pixels, cursorSpeed a whole number
WithEffects(c, motionBlur, chroma, showCursor, cursorSpeed, exportFormat) ==
    [c EXCEPT !.motionBlur = motionBlur, !.chroma = chroma,
              !.showCursor = showCursor, !.cursorSpeed = cursorSpeed,
              !.exportFormat = exportFormat]

MotionBlurs == {Absent, Some(0), Some(5), Some(10)}

Widths == {3, 5}
Heights == {2, 5}
PaddingRatios == {Absent, Some(-10), Some(0), Some(10), Some(25)}

\* Math.round of num/den, den > 0
MathRound(num, den) == FloorDiv(2 * num + den, 2 * den)

\* the margins cut down to whole pixels
Margin_Unrounded(extent, c) ==
    LET padding == OrElse(c.paddingRatio, 0)
    IN  IF padding > 0 /\ ~c.isPreview THEN FloorDiv(extent * padding, 100) ELSE 0

\* const padding = config.paddingRatio || 0; the margins of renderVideo and
\* renderTimeline
Margin(extent, c) ==
    LET padding == OrElse(c.paddingRatio, 0)
    IN  IF padding > 0 /\ ~c.isPreview THEN MathRound(extent * padding, 100) ELSE 0

\* exportConfig = { ...config, width: Math.round(width), height: Math.round(height) }
\* after width += marginX * 2, height += marginY * 2
ExportConfig(c) ==
    [width |-> MathRound(c.width + Margin(c.width, c) * 2, 1),
     height |-> MathRound(c.height + Margin(c.height, c) * 2, 1)]

\* configs of single-block renders
Configs ==
    { Config(raw, fps, cps, hold, fx, Absent) :
        raw \in RawTexts, fps \in FpsVals, cps \in CpsVals,
        hold \in EndHoldVals, fx \in Effects }

\* configs of timeline renders: 1.5 s long
TimelineConfigs ==
    { Config(<<>>, fps, Absent, Absent, fx, Some(15)) :
        fps \in FpsVals, fx \in Effects }

\* the configurations without effects, for the runs that check progress
PlainConfigs == { c \in Configs : c.animationStyle = Absent }

\* the slow configurations, for the runs that render twice
SlowConfigs == { c \in Configs : c.fps = 2 /\ c.endHold = Absent }

\* configurations the spec rules out: fps <= 0 or charsPerSecond < 0
\* (charsPerSecond = 0, a division by zero, is left out)
NonPositiveRateConfigs ==
    { c \in { Config(raw, fps, cps, Absent, fx, Absent) :
                raw \in RawTexts, fps \in {-2, 0, 2}, cps \in {Absent, Some(-2)},
                fx \in {e \in Effects : e.animationStyle = Absent} } :
        c.fps <= 0 \/ c.charsPerSecond = Some(-2) }

\* one short video
ShortConfigs ==
    {c \in PlainConfigs : c.rawText = <<>> /\ c.fps = 2 /\ c.endHold = Some(5)
                            /\ c.charsPerSecond = Absent}

CharsPerSecond(c) == Default(c.charsPerSecond, DefaultCharsPerSecond)
RevealFrames(c) == Default(c.revealFrames, DefaultRevealFrames)
RevealOffsetPx(c) == Default(c.revealOffsetPx, DefaultRevealOffsetPx)
\* config.animationStyle || 'default'
StyleOf(c) == IF c.animationStyle = Absent THEN "default" ELSE Val(c.animationStyle)
GlitchSpeedPct(c) == OrElse(c.glitchSpeed, DefaultGlitchSpeedPct)

(***************************************************************************)
(* renderChar of the single-block renderer: the draw decision for one      *)
(* character at sub-sample s of `samples` in frame `frame`.                *)
(***************************************************************************)
TrueGlyph(ch) == [kind |-> "true", ch |-> ch, set |-> Absent, at |-> 0]
SubstGlyph(g) == [kind |-> "subst", ch |-> "", set |-> g.set, at |-> g.at]

Draw(charObj, glyph, opacity, xOffset) ==
    [index |-> charObj.index, char |-> charObj.char, glyph |-> glyph,
     opacity |-> opacity, xOffset |-> xOffset]

\* opacity > 0.01 && charToDraw.trim().length > 0
Drawn(d) ==
    /\ 100 * d.opacity[1] > d.opacity[2]
    /\ ~(d.glyph.kind = "true" /\ IsBlank(d.glyph.ch))

renderCharDefault(c, charObj, p, visibleCount, totalChars) ==
    IF charObj.index >= visibleCount
      THEN Draw(charObj, TrueGlyph(charObj.char), RatZero, RatZero)
    ELSE IF charObj.index = visibleCount - 1 /\ visibleCount < totalChars
      THEN IF p[1] < p[2] /\ p[1] > 0
             THEN LET eased == easeOutCubic(p)
                  IN  Draw(charObj, TrueGlyph(charObj.char), eased,
                           Rat(RevealOffsetPx(c) * (eased[2] - eased[1]), eased[2]))
           ELSE IF p[1] <= 0
             THEN Draw(charObj, TrueGlyph(charObj.char), RatZero, RatZero)
           ELSE Draw(charObj, TrueGlyph(charObj.char), RatOne, RatZero)
    ELSE Draw(charObj, TrueGlyph(charObj.char), RatOne, RatZero)

\* a typewriter that shows a character one revealFrames late
renderCharTypewriter_HidesLate(charObj, p) ==
    IF p[1] <= p[2]
      THEN Draw(charObj, TrueGlyph(charObj.char), RatZero, RatZero)
      ELSE Draw(charObj, TrueGlyph(charObj.char), RatOne, RatZero)

renderCharTypewriter(charObj, p) ==
    IF p[1] <= 0
      THEN Draw(charObj, TrueGlyph(charObj.char), RatZero, RatZero)
      ELSE Draw(charObj, TrueGlyph(charObj.char), RatOne, RatZero)

\* a glitch that settles at progress 1
renderCharGlitch_SettlesEarly(c, charObj, p, frame) ==
    IF p[1] <= -p[2]
      THEN Draw(charObj, TrueGlyph(charObj.char), RatZero, RatZero)
    ELSE IF p[1] <= p[2]
      THEN Draw(charObj,
                SubstGlyph(GlitchGlyph(frame, charObj.index, GlitchSpeedPct(c),
                                       c.glitchCharset)),
                RatOne,
                GlitchOffset(frame, charObj.index, GlitchSpeedPct(c)))
    ELSE Draw(charObj, TrueGlyph(charObj.char), RatOne, RatZero)

renderCharGlitch(c, charObj, p, frame) ==
    IF p[1] <= -p[2]
      THEN Draw(charObj, TrueGlyph(charObj.char), RatZero, RatZero)
    ELSE IF 2 * p[1] <= 3 * p[2]
      THEN Draw(charObj,
                SubstGlyph(GlitchGlyph(frame, charObj.index, GlitchSpeedPct(c),
                                       c.glitchCharset)),
                RatOne,
                GlitchOffset(frame, charObj.index, GlitchSpeedPct(c)))
    ELSE Draw(charObj, TrueGlyph(charObj.char), RatOne, RatZero)

renderChar(c, charObj, p, frame, visibleCount, totalChars) ==
    IF StyleOf(c) = "default"
      THEN renderCharDefault(c, charObj, p, visibleCount, totalChars)
    ELSE IF StyleOf(c) = "typewriter"
      THEN renderCharTypewriter(charObj, p)
    ELSE IF StyleOf(c) = "glitch"
      THEN renderCharGlitch(c, charObj, p, frame)
    ELSE Draw(charObj, TrueGlyph(charObj.char), RatOne, RatZero)

\* The main text layer of one frame: a single pass over the cached characters,
\* keeping the characters that are drawn.
MainDecisions(c, flatChars, frame, visibleCount, totalChars) ==
    [i \in 1..Len(flatChars) |->
        renderChar(c, flatChars[i],
                   Progress(frame, 0, 1, flatChars[i].index,
                            CharsPerSecond(c), c.fps, RevealFrames(c)),
                   frame, visibleCount, totalChars)]

MainLayer(c, flatChars, frame, visibleCount, totalChars) ==
    SelectSeq(MainDecisions(c, flatChars, frame, visibleCount, totalChars), Drawn)

\* layoutText of a frame: the visible prefix in default style, else the whole text
LayoutText(c, text, visibleCount) ==
    IF StyleOf(c) = "default" THEN substring(text, visibleCount) ELSE text

(***************************************************************************)
(* Timeline sequencer.  A block is [startTime, duration, text], the times  *)
(* in tenths of a second.                                                  *)
(***************************************************************************)
Block(st, dur, raw) == [startTime |-> st, duration |-> dur, text |-> raw]
TextOf(n) == [i \in 1..Min(n, MaxLen) |-> RawToken(i)]

\* timelineData.sort((a, b) => a.startTime - b.startTime): a stable sort
RankOf(data, i) ==
    1 + Cardinality({ j \in 1..Len(data) :
                        \/ data[j].startTime < data[i].startTime
                        \/ data[j].startTime = data[i].startTime /\ j < i })

SortByStartTime_Unsorted(data) == data

SortByStartTime(data) ==
    [k \in 1..Len(data) |-> data[CHOOSE i \in 1..Len(data) : RankOf(data, i) = k]]

\* a block that is over at its end time already
Contains_ExclusiveEnd(block, frame, fps) ==
    /\ 10 * frame >= block.startTime * fps
    /\ 10 * frame < (block.startTime + block.duration) * fps

\* time >= block.startTime && time <= block.startTime + block.duration, time = f / fps
Contains(block, frame, fps) ==
    /\ 10 * frame >= block.startTime * fps
    /\ 10 * frame <= (block.startTime + block.duration) * fps

\* currentBlockIndex: the first block that contains the frame's time, else -1
\* (indices count from 0 as in the code)
CurrentBlockIndex(data, frame, fps) ==
    LET hits == { i \in 1..Len(data) : Contains(data[i], frame, fps) }
    IN  IF hits = {} THEN -1
        ELSE (CHOOSE i \in hits : \A j \in hits : i <= j) - 1

\* Math.ceil(totalDuration * fps)
TimelineTotalFrames(totalDuration, fps) == CeilDiv(totalDuration * fps, 10)

\* blockCharsPerSecond = totalChars / block.duration, characters per second
BlockCharsPerSecond(block, totalChars) == Rat(10 * totalChars, block.duration)

\* Math.min(totalChars, Math.floor(localTime * blockCharsPerSecond)) with
\* localTime = time - block.startTime
TimelineVisibleCount(frame, fps, block, totalChars) ==
    LET bcps == BlockCharsPerSecond(block, totalChars)
    IN  Min(totalChars,
            FloorDiv((10 * frame - block.startTime * fps) * bcps[1],
                     10 * fps * bcps[2]))

\* shakeTrauma *= 0.9; if (visibleCount !== lastVisibleCount || isNewBlock)
\*   if (visibleCount > 0 && config.jitter > 0) shakeTrauma = config.jitter
TimelineNextTrauma(trauma, visibleCount, lastCount, isNewBlock, jitter) ==
    IF (visibleCount # lastCount \/ isNewBlock) /\ visibleCount > 0 /\ jitter > 0
      THEN jitter * 1000
      ELSE Decay(trauma)

\* progress with startFrame = (index / blockCharsPerSecond) * fps + block.startTime * fps
TimelineProgress(frame, s, samples, index, block, totalChars, fps, revealFrames) ==
    Rat((frame * samples - s) * 10 * totalChars
          - samples * fps * (index * block.duration + block.startTime * totalChars),
        revealFrames * 10 * totalChars * samples)

\* opacity > 0.01 && charObj.char.trim().length > 0
TimelineDrawn(d) ==
    /\ 100 * d.opacity[1] > d.opacity[2]
    /\ ~IsBlank(d.char)

\* The main text layer of a timeline frame on which `block` is active.
TimelineDecisions(c, flatChars, frame, block, visibleCount, totalChars) ==
    [i \in 1..Len(flatChars) |->
        renderChar(c, flatChars[i],
                   TimelineProgress(frame, 0, 1, flatChars[i].index, block,
                                    totalChars, c.fps, RevealFrames(c)),
                   frame, visibleCount, totalChars)]

TimelineLayer(c, flatChars, frame, block, visibleCount, totalChars) ==
    SelectSeq(TimelineDecisions(c, flatChars, frame, block, visibleCount, totalChars),
              TimelineDrawn)

(***************************************************************************)
(* Compositing of a frame: the canvas calls of one loop iteration, with    *)
(* motion blur, chromatic aberration and the cursor.                       *)
(***************************************************************************)
\* (config.motionBlur && config.motionBlur > 0)
HasMotionBlur(c) == c.motionBlur # Absent /\ Val(c.motionBlur) > 0

\* a sample count that does not depend on config.motionBlur
MotionSamples_Fixed(c) == IF HasMotionBlur(c) THEN 2 ELSE 1

\* motionSamples = motionBlur > 0 ? Math.max(2, Math.floor(motionBlur * 40)) : 1
MotionSamples(c) ==
    IF HasMotionBlur(c) THEN Max(2, FloorDiv(Val(c.motionBlur) * 40, 100)) ELSE 1

\* isTypingActive = visibleCount < totalChars
\*                  || (f - ((totalChars - 1) / charsPerSecond) * fps) < revealFrames
IsTypingActive(c, frame, visibleCount, totalChars) ==
    \/ visibleCount < totalChars
    \/ frame * CharsPerSecond(c) - (totalChars - 1) * c.fps
          < RevealFrames(c) * CharsPerSecond(c)

\* isTypingActive = visibleCount < totalChars || (f - (((totalChars - 1)
\*   / blockCharsPerSecond) + block.startTime) * fps) < revealFrames
TimelineIsTypingActive(c, frame, block, visibleCount, totalChars) ==
    \/ visibleCount < totalChars
    \/ 10 * totalChars * frame
          - ((totalChars - 1) * block.duration + block.startTime * totalChars) * c.fps
          < RevealFrames(c) * 10 * totalChars

\* progress of a character at frame fr, sample s of `of`, in the single-block
\* renderer (timed = Absent) or while the block Val(timed) is active
ProgressAt(c, timed, fr, s, of, index, totalChars) ==
    IF timed = Absent
      THEN Progress(fr, s, of, index, CharsPerSecond(c), c.fps, RevealFrames(c))
      ELSE TimelineProgress(fr, s, of, index, Val(timed), totalChars, c.fps,
                            RevealFrames(c))

\* one call renderChar(charObj, sampleProgress, opacityMult) with
\* sampleProgress = -(s / samples): the decision taken and the weight the
\* opacity is multiplied with
Call(c, timed, charObj, frame, s, samples, visibleCount, totalChars) ==
    [index |-> charObj.index, sample |-> s, samples |-> samples,
     weight |-> Rat(1, samples),
     draw |-> renderChar(c, charObj,
                         ProgressAt(c, timed, frame, s, samples, charObj.index,
                                    totalChars),
                         frame, visibleCount, totalChars)]

\* the renderChar calls of one drawTextLayer(baseColor, offsetX, offsetY, isMainText),
\* in call order.  With sub-sampling,
\* for (s = 0; s < motionSamples; s++) for (i = 0; i < cachedFlatChars.length; i++),
\* a character fully revealed a frame ago (fullyRevealed = ((f - 1) - startFrame)
\* / revealFrames >= 1) is drawn on sample 0 only and at weight 1.0, any other
\* on every sample at motionWeight.
drawTextLayer(c, timed, flatChars, frame, visibleCount, totalChars, isMainText) ==
    LET samples == MotionSamples(c)
        typing == IF timed = Absent
                    THEN IsTypingActive(c, frame, visibleCount, totalChars)
                    ELSE TimelineIsTypingActive(c, frame, Val(timed), visibleCount,
                                                totalChars)
        once(charObj) == Call(c, timed, charObj, frame, 0, 1, visibleCount, totalChars)
        fullyRevealed(charObj) ==
            LET p == ProgressAt(c, timed, frame - 1, 0, 1, charObj.index, totalChars)
            IN  p[1] >= p[2]
        all == [k \in 1..(samples * Len(flatChars)) |->
                  LET s == (k - 1) \div Len(flatChars)
                      charObj == flatChars[((k - 1) % Len(flatChars)) + 1]
                  IN  IF fullyRevealed(charObj)
                        THEN [call |-> once(charObj), made |-> s = 0]
                        ELSE [call |-> Call(c, timed, charObj, frame, s, samples,
                                            visibleCount, totalChars),
                              made |-> TRUE]]
        made == SelectSeq(all, LAMBDA x : x.made)
    IN  IF isMainText /\ samples > 1 /\ typing
          THEN [k \in 1..Len(made) |-> made[k].call]
          ELSE [i \in 1..Len(flatChars) |-> once(flatChars[i])]

\* one compositing step of a frame: what is drawn; x, y, for a raster (background,
\* history, snapshot) the canvas pixel its corner lands on, for the translation
\* and the text layers the offset, for the cursor its character cell; globalAlpha in hundredths; src, the frame
\* whose raster is copied; calls, the renderChar calls of a text layer
Op(name, x, y, alpha, src, calls) ==
    [op |-> name, x |-> x, y |-> y, alpha |-> alpha, src |-> src, calls |-> calls]

\* Draw Background: fillRect(-marginX, -marginY, fullWidth, fullHeight), or
\* clearRect for the formats with transparency, under translate(marginX, marginY)
Background(c, mx, my) ==
    IF c.exportFormat # Some("mov_prores") /\ c.exportFormat # Some("webm_preview")
      THEN Op("fillRect", mx - mx, my - my, 100, -1, <<>>)
      ELSE Op("clearRect", mx - mx, my - my, 100, -1, <<>>)

\* a history blend on frame 0 as well
HistoryBlend_FromFrameZero(c, frame, x, y, hist) ==
    IF HasMotionBlur(c)
      THEN <<Op("drawHistory", x, y, Val(c.motionBlur), hist, <<>>)>>
      ELSE <<>>

\* if (config.motionBlur > 0 && f > 0) { globalAlpha = motionBlur;
\* drawImage(historyCanvas, 0, 0) }; (x, y) is where the context's transform
\* puts the point (0, 0) on the canvas, hist the frame the buffer holds
HistoryBlend(c, frame, x, y, hist) ==
    IF HasMotionBlur(c) /\ frame > 0
      THEN <<Op("drawHistory", x, y, Val(c.motionBlur), hist, <<>>)>>
      ELSE <<>>

\* if (config.chroma > 0) { drawTextLayer(red, -chroma, 0);
\* drawTextLayer(blue, chroma, 0) }
ChromaLayers(c, calls) ==
    IF c.chroma # Absent /\ Val(c.chroma) > 0
      THEN <<Op("redLayer", -Val(c.chroma), 0, 100, -1, calls),
             Op("blueLayer", Val(c.chroma), 0, 100, -1, calls)>>
      ELSE <<>>

\* if (config.motionBlur > 0) { resetTransform; historyCtx.drawImage(canvas, 0, 0) }
HistorySnapshot(c, frame) ==
    IF HasMotionBlur(c) THEN <<Op("snapshot", 0, 0, 100, frame, <<>>)>> ELSE <<>>

\* resetTransform; getImageData(0, 0, fullWidth, fullHeight); stream.write(buffer)
StreamWrite(frame) == Op("write", 0, 0, 100, frame, <<>>)

\* a cursor that never blinks off
BlinkOn_Always(c, frame) == TRUE

\* cSpeed = config.cursorSpeed || 1.0;
\* blinkOn = Math.floor(f / (fps / (2 * cSpeed))) % 2 === 0
BlinkOn(c, frame) ==
    FloorDiv(frame * 2 * OrElse(c.cursorSpeed, 1), c.fps) % 2 = 0

\* a cursor that follows the last character of the layout in every style
CursorCell_LayoutEnd(c, flatChars, visibleCount) ==
    IF Len(flatChars) > 0 /\ visibleCount > 0
      THEN flatChars[Len(flatChars)].index + 1
      ELSE 0

\* cursorX: just past cachedFlatChars[targetIdx], targetIdx = Math.min(visibleCount
\* - 1, cachedFlatChars.length - 1), in default style cachedFlatChars.length - 1;
\* the start of the first line when no character is counted visible.  Counted
\* in character cells: k + 1 is the place just past the character of index k.
CursorCell(c, flatChars, visibleCount) ==
    IF Len(flatChars) > 0 /\ visibleCount > 0
      THEN LET targetIdx == IF StyleOf(c) = "default"
                              THEN Len(flatChars) - 1
                              ELSE Min(visibleCount - 1, Len(flatChars) - 1)
           IN  flatChars[targetIdx + 1].index + 1
      ELSE 0

\* if (isMainText && config.showCursor && cachedLayout) if (blinkOn) fillText(cursor):
\* the cursor, drawn by the main text layer after its characters; `inBlock`
\* is the timeline's blockPhaseFps >= 0, TRUE in the single-block renderer
Cursor(c, frame, layout, inBlock, flatChars, visibleCount) ==
    IF c.showCursor /\ layout # Absent /\ inBlock /\ BlinkOn(c, frame)
      THEN <<Op("cursor", CursorCell(c, flatChars, visibleCount), 0, 100, -1, <<>>)>>
      ELSE <<>>

\* a frame that draws the main text layer before the chroma layers
SegmentOps_MainFirst(c, flatChars, frame, visibleCount, totalChars, shake, layout, mx, my, hist) ==
    <<Background(c, mx, my)>>
      \o HistoryBlend(c, frame, mx, my, hist)
      \o <<Op("translate", shake.x, shake.y, 100, -1, <<>>)>>
      \o <<Op("mainLayer", 0, 0, 100, -1,
              drawTextLayer(c, Absent, flatChars, frame, visibleCount, totalChars, TRUE))>>
      \o Cursor(c, frame, layout, TRUE, flatChars, visibleCount)
      \o ChromaLayers(c, drawTextLayer(c, Absent, flatChars, frame, visibleCount,
                                       totalChars, FALSE))
      \o HistorySnapshot(c, frame)
      \o <<StreamWrite(frame)>>

\* the compositing steps of one frame of renderSegmentToStream, in order; the
\* context's transform is translate(marginX, marginY) when the frame begins
SegmentOps(c, flatChars, frame, visibleCount, totalChars, shake, layout, mx, my, hist) ==
    <<Background(c, mx, my)>>
      \o HistoryBlend(c, frame, mx, my, hist)
      \o <<Op("translate", shake.x, shake.y, 100, -1, <<>>)>>
      \o ChromaLayers(c, drawTextLayer(c, Absent, flatChars, frame, visibleCount,
                                       totalChars, FALSE))
      \o <<Op("mainLayer", 0, 0, 100, -1,
              drawTextLayer(c, Absent, flatChars, frame, visibleCount, totalChars, TRUE))>>
      \o Cursor(c, frame, layout, TRUE, flatChars, visibleCount)
      \o HistorySnapshot(c, frame)
      \o <<StreamWrite(frame)>>

\* the compositing steps of a timeline frame on which `block` is active; the
\* cursor needs blockPhaseFps = f - block.startTime * fps >= 0 as well
BlockOps(c, flatChars, frame, block, visibleCount, totalChars, shake, layout, mx, my, hist) ==
    <<Background(c, mx, my)>>
      \o HistoryBlend(c, frame, mx, my, hist)
      \o <<Op("translate", shake.x, shake.y, 100, -1, <<>>)>>
      \o ChromaLayers(c, drawTextLayer(c, Some(block), flatChars, frame, visibleCount,
                                       totalChars, FALSE))
      \o <<Op("mainLayer", 0, 0, 100, -1,
              drawTextLayer(c, Some(block), flatChars, frame, visibleCount,
                            totalChars, TRUE))>>
      \o Cursor(c, frame, layout, 10 * frame - block.startTime * c.fps >= 0, flatChars,
               visibleCount)
      \o HistorySnapshot(c, frame)
      \o <<StreamWrite(frame)>>

\* a gap frame that still draws the cursor
GapOps_WithCursor(c, frame, mx, my, hist) ==
    <<Background(c, mx, my)>>
      \o HistoryBlend(c, frame, 0, 0, hist)
      \o <<Op("cursor", 0, 0, 100, -1, <<>>)>>
      \o HistorySnapshot(c, frame)
      \o <<StreamWrite(frame)>>

\* the compositing steps of a timeline frame between blocks: the history is
\* blended after ctx.resetTransform()
GapOps(c, frame, mx, my, hist) ==
    <<Background(c, mx, my)>>
      \o HistoryBlend(c, frame, 0, 0, hist)
      \o HistorySnapshot(c, frame)
      \o <<StreamWrite(frame)>>

(***************************************************************************)
(* Output path.  File k stands for <base>.<ext> when k = 0 and for         *)
(* <base>_k.<ext> otherwise; `existing` is the set of files on disk.       *)
(***************************************************************************)
RECURSIVE FirstFreeCandidate(_, _)
FirstFreeCandidate(existing, counter) ==
    IF counter \in existing
      THEN FirstFreeCandidate(existing, counter + 1)
      ELSE counter

getUniqueOutputPath_AlwaysSuffix(existing, path) ==
    FirstFreeCandidate(existing, 1)

getUniqueOutputPath(existing, path) ==
    IF path \notin existing THEN path ELSE FirstFreeCandidate(existing, 1)

(***************************************************************************)
(* Calls tried: renderVideo(text, config, path) and                        *)
(* renderTimeline(timelineData, config, path).                             *)
(***************************************************************************)
Timelines ==
    { <<>>,
      <<Block(0, 5, TextOf(1))>>,
      <<Block(10, 5, TextOf(4)), Block(0, 5, TextOf(1))>>,
      <<Block(0, 10, TextOf(3)), Block(10, 5, TextOf(4))>>,
      <<Block(5, 5, <<>>), Block(0, 10, TextOf(4))>> }

VideoCalls(configs) ==
    { [fn |-> "renderVideo", config |-> c, timelineData |-> <<>>] : c \in configs }

TimelineCalls(configs) ==
    { [fn |-> "renderTimeline", config |-> c, timelineData |-> t] :
        c \in configs, t \in Timelines }

Calls == VideoCalls(Configs) \cup TimelineCalls(TimelineConfigs)

\* the calls without effects, for the runs that check progress
PlainCalls ==
    VideoCalls(PlainConfigs)
      \cup TimelineCalls({ c \in TimelineConfigs : c.animationStyle = Absent })

(***************************************************************************)
(* State.                                                                  *)
(***************************************************************************)
VARIABLES
    entry,             \* the function the caller invokes
    cfg,               \* the caller's config (with the raw text), read-only
    timelineData,      \* the caller's block list
    activeBlockIndex,
    files,             \* files on disk
    pc,                \* where the render invocation stands
    f,                 \* frame index of the loop
    totalFrames,
    text,              \* cleanText
    lastVisibleCount,
    cachedLayout,      \* Absent (null) or Some(layoutText the layout was computed from)
    cachedFlatChars,
    shakeTrauma,
    history,           \* the frame whose raster historyCanvas holds, -1 while blank
    outputPath,        \* path handed to the encoder
    encoder,           \* "none", "running", "killed", "exited"
    exitCode,          \* Absent or Some(code of the 'close' event)
    spawnCount,        \* calls of spawnFfmpeg in this invocation
    stdinEnded,        \* stdin.end() was called
    closeListener,     \* ffmpegProcess.on('close', ...) is registered
    needDrain,         \* the stream returned false and has not emitted 'drain' since
    result,            \* settlement of the promise renderVideo returned
    written,           \* frame indices passed to stream.write, in call order
    lastFrame,         \* content of the frame composed last
    composed,          \* number of frames composed
    sinceYield,        \* writes since the loop last yielded
    yielded,           \* the loop yielded since the last write
    randCalls,         \* calls of Math.random in this invocation
    closedDuringLoop,  \* the encoder emitted 'close' while the loop was running
    thrown,            \* Absent or Some(<<frame, error>>) thrown inside the loop
    lastWriteOk,       \* what the last stream.write call returned
    killCalls,         \* calls of ffmpegProcess.kill()
    run,               \* 1 for the first invocation, 2 for a repetition of it
    probe,             \* the frame index whose content is compared across runs
    probeFrame,        \* content of frame `probe` in the first invocation
    reply,             \* what the IPC handler returned to the window
    marginX,           \* the margins renderVideo hands to the frame loop
    marginY,
    exportConfig,      \* the width and height the encoder was spawned with
    fontsLoaded,       \* the module's flag of the same name
    fontPc,            \* where a running loadFonts call stands
    packaged,          \* process.resourcesPath is set
    registered,        \* per family, GlobalFonts.register calls that returned,
                       \* since the flag was last reset
    systemLoads,       \* calls of GlobalFonts.loadSystemFonts since then
    callNo,            \* calls of loadFonts since then
    fontCalls,         \* calls of loadFonts in this process
    fontReturn,        \* what the last finished loadFonts call returned
    rival,             \* a second renderVideo call for the same path, run meanwhile
    timelineBlocksData,\* the editor's blocks: id, text, start, duration
    interaction,       \* per block, the closure variables of setupBlockInteraction
    liveVideoCache,    \* per text, the preview cached for it
    preloading,        \* the running pass of preloadLiveVideosSeq
    saved,             \* the blocks last handed to saveTimelineData
    exporting,         \* isTimelineRendering and the list handed to the renderer
    playback,          \* audio buffer, clock, sources and playback variables
    previewPane,       \* activePreviewBlock and the preview video element
    mouseDowns         \* mousedown events so far

loopVars == <<f, lastVisibleCount, cachedLayout, cachedFlatChars, shakeTrauma, text,
              activeBlockIndex, history>>
setupVars == <<totalFrames, outputPath, spawnCount, timelineData, marginX, marginY,
               exportConfig>>
fontVars == <<fontsLoaded, fontPc, packaged, registered, systemLoads, callNo, fontCalls,
              fontReturn>>
editorVars == <<timelineBlocksData, interaction, liveVideoCache, preloading, saved,
                exporting, playback, previewPane, mouseDowns>>
sideVars == <<rival, editorVars>>
inputVars == <<entry, cfg, files, probe, reply, fontVars, sideVars>>
procVars == <<encoder, exitCode, stdinEnded, closeListener, needDrain>>
obsVars == <<written, lastFrame, composed, sinceYield, yielded, randCalls,
             closedDuringLoop, thrown, lastWriteOk, killCalls>>
vars == <<pc, result, loopVars, setupVars, inputVars, procVars, obsVars, run, probeFrame>>

LoopPcs == {"yield", "compose", "drain"}
ExitCodes == 0..MaxExitCode
Errors == {"compose failed", "write failed"}

Pending == [status |-> "pending", kind |-> "none", n |-> 0, err |-> ""]
Resolved(path) == [status |-> "resolved", kind |-> "path", n |-> path, err |-> ""]
\* new Error(`FFmpeg error ${code}`)
FfmpegError(code) == [status |-> "rejected", kind |-> "ffmpeg", n |-> code, err |-> ""]
\* a catch block that rejects with an error of its own
Rejected_Replaced(err) ==
    [status |-> "rejected", kind |-> "thrown", n |-> 0, err |-> "render failed"]

\* catch (err) { ffmpegProcess.kill(); throw err; }
Rejected(err) == [status |-> "rejected", kind |-> "thrown", n |-> 0, err |-> err]

\* the value an ipcMain handler returns; `sent` is FALSE until it returns
NoReply == [sent |-> FALSE, success |-> FALSE, outputPath |-> Absent, error |-> Pending]
\* return { success: true, outputPath }
Success(path) == [sent |-> TRUE, success |-> TRUE, outputPath |-> Some(path), error |-> Pending]
\* catch (err) { return { success: false, error: err.message } }
Failure(err) == [sent |-> TRUE, success |-> FALSE, outputPath |-> Absent, error |-> err]

NoFrame ==
    [index |-> -1, block |-> -1, visibleCount |-> 0, shakeX |-> 0, shakeY |-> 0,
     decisions |-> <<>>, layer |-> <<>>, bytes |-> 0, ops |-> <<>>]

(***************************************************************************)
(* Fonts.  Family 1 is 'Inter', registered from the caller's fontPath; the *)
(* other families are tried from a list of candidate files each.           *)
(***************************************************************************)
Families == <<"Inter", "Arial Narrow", "Impact", "Gabriola", "Monotype Corsiva">>

\* the length of each family's candidate list; three (for Gabriola and
\* Monotype Corsiva two) entries exist only when process.resourcesPath is set
CandidatePaths(family, hasResources) ==
    CASE family = 1 -> 1
      [] family = 2 -> IF hasResources THEN 8 ELSE 5
      [] family = 3 -> IF hasResources THEN 8 ELSE 5
      [] family = 4 -> IF hasResources THEN 4 ELSE 2
      [] OTHER      -> IF hasResources THEN 5 ELSE 3

\* what safeRegisterFont meets at one path: no file; a file that
\* fs.readFileSync cannot read; a buffer GlobalFonts.register throws on;
\* a font that is registered
FontFiles == {"missing", "unreadable", "refused", "ok"}

FontIdle == [at |-> "idle", family |-> 0, candidate |-> 0]
FontAt(family, candidate) == [at |-> "family", family |-> family, candidate |-> candidate]
FontSystem == [at |-> "system", family |-> 0, candidate |-> 0]

\* the position after the loop over `family` has ended
AfterFamily(family) ==
    IF family < Len(Families) THEN FontAt(family + 1, 1) ELSE FontSystem

FontsInit(resources) ==
    /\ fontsLoaded = FALSE
    /\ fontPc = FontIdle
    /\ packaged \in resources
    /\ registered = [family \in 1..Len(Families) |-> 0]
    /\ systemLoads = 0
    /\ callNo = 0
    /\ fontCalls = 0
    /\ fontReturn = "none"

(***************************************************************************)
(* The timeline editor of the window (gui/timeline.js).  Times are in      *)
(* units of 1/10000 s, mouse positions in pixels.                          *)
(***************************************************************************)
Second == 10 * 1000
pixelsPerSecond == 100
MinDuration == 2000
RebuildThreshold == 1000
InitialBlockDuration == 20000
InitialBlockGap == 5000

\* parseFloat(x.toFixed(3)) for x >= 0: the nearest thousandth of a second
toFixed3(x) == ((x + 5) \div 10) * 10

\* the closure variables of setupBlockInteraction
NoInteraction ==
    [isDragging |-> FALSE, isResizingLeft |-> FALSE, isResizingRight |-> FALSE,
     startX |-> 0, initialStart |-> 0, initialDuration |-> 0]

\* an entry of liveVideoCache: missing, 'loading', or the url of a preview,
\* which stands for the file built with config.blockDuration
NotCached == [kind |-> "none", blockDuration |-> 0]
Loading == [kind |-> "loading", blockDuration |-> 0]
Built(blockDuration) == [kind |-> "url", blockDuration |-> blockDuration]

EditorTexts == {"a", "b"}

\* isPreloadingVideos, and the block and bConfig.blockDuration of the build awaited
NotPreloading == [isPreloadingVideos |-> FALSE, index |-> 0, blockDuration |-> 0]

\* an audio source that is playing, was stopped (its 'ended' event is still to
\* come), or has emitted 'ended'; `by` is the handler that created it
AudioSource(offset, startedAt, by) ==
    [state |-> "playing", offset |-> offset, startedAt |-> startedAt, by |-> by]

PlaybackIdle ==
    [audioBuffer |-> FALSE, audioDuration |-> 0, currentTime |-> 0,
     isPlaying |-> FALSE, pauseTimeOffset |-> 0, playStartTime |-> 0,
     audioSource |-> 0, sources |-> <<>>, animationFrame |-> FALSE,
     playhead |-> FALSE]

\* activePreviewBlock (0 for null) and the url the preview video element shows
NoPreview == [activePreviewBlock |-> 0, cachedUrl |-> NotCached]

NotExporting == [isTimelineRendering |-> FALSE, timelineExportData |-> <<>>]

\* the window before DOMContentLoaded
EditorInit ==
    /\ timelineBlocksData = <<>>
    /\ interaction = <<>>
    /\ liveVideoCache = [t \in EditorTexts |-> NotCached]
    /\ preloading = NotPreloading
    /\ saved = <<>>
    /\ exporting = NotExporting
    /\ playback = PlaybackIdle
    /\ previewPane = NoPreview
    /\ mouseDowns = 0

\* a renderVideo call that has not started: -1 stands for no path
RivalIdle == [pc |-> "idle", outputPath |-> -1]

RenderInit(calls, probes, dirs) ==
    /\ rival = RivalIdle
    /\ EditorInit
    /\ \E call \in calls :
         /\ entry = call.fn
         /\ cfg = call.config
         /\ timelineData = call.timelineData
    /\ activeBlockIndex = -1
    /\ files \in dirs
    /\ probe \in probes
    /\ pc = "idle"
    /\ f = 0
    /\ totalFrames = 0
    /\ text = <<>>
    /\ lastVisibleCount = -1
    /\ cachedLayout = Absent
    /\ cachedFlatChars = <<>>
    /\ shakeTrauma = 0
    /\ history = -1
    /\ outputPath = 0
    /\ marginX = 0
    /\ marginY = 0
    /\ exportConfig = [width |-> 0, height |-> 0]
    /\ encoder = "none"
    /\ exitCode = Absent
    /\ spawnCount = 0
    /\ stdinEnded = FALSE
    /\ closeListener = FALSE
    /\ needDrain = FALSE
    /\ result = Pending
    /\ written = <<>>
    /\ lastFrame = NoFrame
    /\ composed = 0
    /\ sinceYield = 0
    /\ yielded = FALSE
    /\ randCalls = 0
    /\ closedDuringLoop = FALSE
    /\ thrown = Absent
    /\ lastWriteOk = TRUE
    /\ killCalls = 0
    /\ run = 1
    /\ probeFrame = NoFrame
    /\ reply = NoReply

InitFrom(calls, probes, dirs) == FontsInit({FALSE}) /\ RenderInit(calls, probes, dirs)

\* the requested output file is absent or present
Dirs == {{}, {0}}

InitWith(calls, probes) == InitFrom(calls, probes, Dirs)

Init == InitWith(Calls, {0})

(***************************************************************************)
(* The frame loop.                                                         *)
(***************************************************************************)
\* a loop that does not yield before its first frame
YieldsBefore_NotFirst(frame) == frame % YieldEvery = 0 /\ frame > 0

\* if (f % 10 === 0) await new Promise(r => setImmediate(r))
YieldsBefore(frame) == frame % YieldEvery = 0

\* the loop that writes on without waiting for 'drain'
MustWait_Never(drained) == FALSE

\* if (!drained) await new Promise(r => stream.once('drain', r))
MustWait(drained) == ~drained

\* if (visibleCount !== lastVisibleCount): recompute the layout
NeedsLayout(visibleCount, lastCount) == visibleCount # lastCount

\* a layout recomputed only when the count changes
TimelineNeedsLayout_CountOnly(visibleCount, lastCount, isNewBlock) ==
    visibleCount # lastCount

\* if (visibleCount !== lastVisibleCount || isNewBlock): recompute the layout
TimelineNeedsLayout(visibleCount, lastCount, isNewBlock) ==
    visibleCount # lastCount \/ isNewBlock

\* the loop that runs one frame too far
LoopOver_OneMore(nf, tf) == ~(nf <= tf)

\* the loop that stops one frame short
LoopOver_EndsEarly(nf, tf) == ~(nf + 1 < tf)

\* for (let f = 0; f < totalFrames; f++)
LoopOver(nf, tf) == ~(nf < tf)

PcAt(nf, tf) ==
    IF LoopOver(nf, tf) THEN "awaitClose"
    ELSE IF YieldsBefore(nf) THEN "yield"
    ELSE "compose"

\* The loop continues with frame nf or, past the last frame, returns to
\* renderVideo, which ends stdin and returns the promise that listens for 'close'.
EnterFrame(nf, tf) ==
    /\ f' = nf
    /\ pc' = PcAt(nf, tf)
    /\ stdinEnded' = (stdinEnded \/ LoopOver(nf, tf))
    /\ closeListener' = (closeListener \/ LoopOver(nf, tf))

\* stream.write on the encoder's stdin reports true or false as the stream's
\* buffer decides, whether or not the encoder still reads; only the pipe of a
\* running encoder ever emits 'drain'.
WriteResults == BOOLEAN

\* getUniqueOutputPath, spawnFfmpeg: a fresh encoder for this invocation
Spawn(existing) ==
    /\ marginX' = Margin(cfg.width, cfg)
    /\ marginY' = Margin(cfg.height, cfg)
    /\ exportConfig' = ExportConfig(cfg)
    /\ outputPath' = getUniqueOutputPath(existing, 0)
    /\ encoder' = "running"
    /\ exitCode' = Absent
    /\ needDrain' = FALSE
    /\ spawnCount' = 1
    /\ result' = Pending

\* the loop starts at frame 0 or, with no frame to render, returns at once
EnterLoop(tf) ==
    /\ f' = 0
    /\ pc' = PcAt(0, tf)
    /\ stdinEnded' = LoopOver(0, tf)
    /\ closeListener' = LoopOver(0, tf)

\* renderVideo up to the first await of the loop: fresh locals
Begin(existing) ==
    /\ Spawn(existing)
    /\ text' = extractTextAndColors(cfg.rawText)
    /\ totalFrames' = TotalFrames(Len(text'), CharsPerSecond(cfg), cfg.endHold, cfg.fps)
    /\ lastVisibleCount' = -1
    /\ cachedLayout' = Absent
    /\ cachedFlatChars' = <<>>
    /\ shakeTrauma' = 0
    /\ history' = -1
    /\ EnterLoop(totalFrames')
    /\ UNCHANGED <<timelineData, activeBlockIndex>>

\* renderTimeline up to the first await of the loop: the caller's block list
\* is sorted in place
BeginTimeline(existing) ==
    /\ Spawn(existing)
    /\ totalFrames' = TimelineTotalFrames(Val(cfg.totalDuration), cfg.fps)
    /\ timelineData' = SortByStartTime(timelineData)
    /\ activeBlockIndex' = -1
    /\ cachedLayout' = Absent
    /\ cachedFlatChars' = <<>>
    /\ lastVisibleCount' = -1
    /\ shakeTrauma' = 0
    /\ history' = -1
    /\ text' = <<>>
    /\ EnterLoop(totalFrames')

Invoke ==
    /\ pc = "idle"
    /\ entry = "renderVideo"
    /\ Begin(files)
    /\ UNCHANGED <<inputVars, obsVars, run, probeFrame>>

InvokeTimeline ==
    /\ pc = "idle"
    /\ entry = "renderTimeline"
    /\ BeginTimeline(files)
    /\ UNCHANGED <<inputVars, obsVars, run, probeFrame>>

\* the same (text, config) is rendered a second time
\* What the previous render left at its output path: the file of a render
\* that resolved exists; a failed encoder may or may not have created one.
LeftOnDisk ==
    IF result.status = "resolved"
      THEN {files \cup {outputPath}}
      ELSE {files, files \cup {outputPath}}

InvokeAgainUpTo(runs) ==
    /\ pc \in {"resolved", "rejected"}
    /\ entry = "renderVideo"
    /\ run < runs
    /\ run' = run + 1
    /\ files' \in LeftOnDisk
    /\ Begin(files')
    /\ written' = <<>>
    /\ lastFrame' = NoFrame
    /\ composed' = 0
    /\ sinceYield' = 0
    /\ yielded' = FALSE
    /\ randCalls' = 0
    /\ closedDuringLoop' = FALSE
    /\ thrown' = Absent
    /\ lastWriteOk' = TRUE
    /\ killCalls' = 0
    /\ reply' = NoReply
    /\ UNCHANGED <<entry, cfg, probe, probeFrame, fontVars, sideVars>>

InvokeAgain == InvokeAgainUpTo(2)

\* up to MaxRuns renders in a row to the same requested path
InvokeRepeat == InvokeAgainUpTo(MaxRuns)

\* the setImmediate callback runs
YieldResume ==
    /\ pc = "yield"
    /\ pc' = "compose"
    /\ yielded' = TRUE
    /\ sinceYield' = 0
    /\ UNCHANGED <<result, loopVars, setupVars, inputVars, procVars, written, lastFrame,
                   composed, randCalls, closedDuringLoop, thrown, lastWriteOk,
                   killCalls, run, probeFrame>>

\* shakeX, shakeY of a frame: two calls of Math.random when the trauma is
\* above the threshold, none otherwise
Shake(trauma, r1, r2) ==
    [x |-> IF Shakes(trauma) THEN ShakeOffset(r1, trauma) ELSE 0,
     y |-> IF Shakes(trauma) THEN ShakeOffset(r2, trauma) ELSE 0]

\* ctx.getImageData(0, 0, fullWidth, fullHeight).data: four bytes a pixel
BufferBytes == (cfg.width + marginX * 2) * (cfg.height + marginY * 2) * 4

\* the body of renderSegmentToStream's loop up to the write
ComposeSegmentFrame ==
    LET visibleCount == VisibleCount(f, cfg.fps, CharsPerSecond(cfg), Len(text))
        trauma == NextTrauma(shakeTrauma, visibleCount, lastVisibleCount, cfg.jitter)
        relayout == NeedsLayout(visibleCount, lastVisibleCount)
        layoutText == LayoutText(cfg, text, visibleCount)
        flat == IF relayout THEN getFlatCharacterPositions(layoutText)
                            ELSE cachedFlatChars
    IN  /\ shakeTrauma' = trauma
        /\ lastVisibleCount' = IF relayout THEN visibleCount ELSE lastVisibleCount
        /\ cachedLayout' = IF relayout THEN Some(layoutText) ELSE cachedLayout
        /\ cachedFlatChars' = flat
        /\ \E r1 \in RandVals, r2 \in RandVals :
             /\ Shakes(trauma) \/ (r1 = 0 /\ r2 = 0)
             /\ randCalls' = IF Shakes(trauma) THEN randCalls + 2 ELSE randCalls
             /\ lastFrame' =
                  [index |-> f, block |-> 0, visibleCount |-> visibleCount,
                   shakeX |-> Shake(trauma, r1, r2).x,
                   shakeY |-> Shake(trauma, r1, r2).y,
                   decisions |-> MainDecisions(cfg, flat, f, visibleCount, Len(text)),
                   layer |-> MainLayer(cfg, flat, f, visibleCount, Len(text)),
                   bytes |-> BufferBytes,
                   ops |-> SegmentOps(cfg, flat, f, visibleCount, Len(text),
                                      Shake(trauma, r1, r2), cachedLayout',
                                      marginX, marginY, history)]
        /\ history' = IF HasMotionBlur(cfg) THEN f ELSE history
        /\ UNCHANGED <<text, activeBlockIndex>>

\* the body of renderTimelineToStream's loop up to the write, a block being active
ComposeBlockFrame(current) ==
    LET isNewBlock == current # activeBlockIndex
        block == timelineData[current + 1]
        cleanText == extractTextAndColors(block.text)
        totalChars == Len(cleanText)
        visibleCount == TimelineVisibleCount(f, cfg.fps, block, totalChars)
        trauma == TimelineNextTrauma(shakeTrauma, visibleCount, lastVisibleCount,
                                     isNewBlock, cfg.jitter)
        relayout == TimelineNeedsLayout(visibleCount, lastVisibleCount, isNewBlock)
        layoutText == LayoutText(cfg, cleanText, visibleCount)
        flat == IF relayout THEN getFlatCharacterPositions(layoutText)
                            ELSE cachedFlatChars
    IN  /\ text' = cleanText
        /\ shakeTrauma' = trauma
        /\ lastVisibleCount' = IF relayout THEN visibleCount ELSE lastVisibleCount
        /\ cachedLayout' = IF relayout THEN Some(layoutText) ELSE cachedLayout
        /\ cachedFlatChars' = flat
        /\ \E r1 \in RandVals, r2 \in RandVals :
             /\ Shakes(trauma) \/ (r1 = 0 /\ r2 = 0)
             /\ randCalls' = IF Shakes(trauma) THEN randCalls + 2 ELSE randCalls
             /\ lastFrame' =
                  [index |-> f, block |-> current, visibleCount |-> visibleCount,
                   shakeX |-> Shake(trauma, r1, r2).x,
                   shakeY |-> Shake(trauma, r1, r2).y,
                   decisions |-> TimelineDecisions(cfg, flat, f, block, visibleCount,
                                                   totalChars),
                   layer |-> TimelineLayer(cfg, flat, f, block, visibleCount,
                                           totalChars),
                   bytes |-> BufferBytes,
                   ops |-> BlockOps(cfg, flat, f, block, visibleCount, totalChars,
                                    Shake(trauma, r1, r2), cachedLayout',
                                    marginX, marginY, history)]
        /\ history' = IF HasMotionBlur(cfg) THEN f ELSE history

\* a timeline frame between blocks: the background only
ComposeGapFrame ==
    /\ lastFrame' = [index |-> f, block |-> -1, visibleCount |-> 0,
                     shakeX |-> 0, shakeY |-> 0, decisions |-> <<>>, layer |-> <<>>,
                     bytes |-> BufferBytes,
                     ops |-> GapOps(cfg, f, marginX, marginY, history)]
    /\ history' = IF HasMotionBlur(cfg) THEN f ELSE history
    /\ UNCHANGED <<text, shakeTrauma, lastVisibleCount, cachedLayout, cachedFlatChars,
                   randCalls>>

ComposeTimelineFrame ==
    LET current == CurrentBlockIndex(timelineData, f, cfg.fps)
    IN  /\ activeBlockIndex' = current
        /\ IF current # -1 THEN ComposeBlockFrame(current) ELSE ComposeGapFrame

\* one iteration of the loop body: compose frame f and write it
ComposeWrite ==
    /\ pc = "compose"
    /\ IF entry = "renderTimeline" THEN ComposeTimelineFrame ELSE ComposeSegmentFrame
    /\ probeFrame' = IF run = 1 /\ f = probe THEN lastFrame' ELSE probeFrame
    /\ composed' = composed + 1
    /\ written' = Append(written, f)
    /\ sinceYield' = sinceYield + 1
    /\ yielded' = FALSE
    /\ \E drained \in WriteResults :
         /\ needDrain' = ~drained
         /\ lastWriteOk' = drained
         /\ IF MustWait(drained)
              THEN /\ pc' = "drain"
                   /\ UNCHANGED <<f, stdinEnded, closeListener>>
              ELSE EnterFrame(f + 1, totalFrames)
    /\ UNCHANGED <<result, setupVars, inputVars, encoder, exitCode, closedDuringLoop,
                   thrown, killCalls, run>>

\* the loop body throws: renderVideo's catch kills the encoder and rethrows
ComposeThrow ==
    /\ pc = "compose"
    /\ \E err \in Errors :
         /\ thrown' = Some(<<f, err>>)
         /\ result' = Rejected(err)
    /\ pc' = "rejected"
    /\ encoder' = IF encoder = "running" THEN "killed" ELSE encoder
    /\ killCalls' = killCalls + 1
    /\ UNCHANGED <<loopVars, setupVars, inputVars, exitCode, stdinEnded, closeListener,
                   needDrain, written, lastFrame, composed, sinceYield, yielded,
                   randCalls, closedDuringLoop, lastWriteOk, run, probeFrame>>

\* the stream emits 'drain'
Drain ==
    /\ needDrain
    /\ encoder = "running"
    /\ needDrain' = FALSE
    /\ IF pc = "drain"
         THEN EnterFrame(f + 1, totalFrames)
         ELSE UNCHANGED <<pc, f, stdinEnded, closeListener>>
    /\ UNCHANGED <<result, lastVisibleCount, cachedLayout, cachedFlatChars, shakeTrauma,
                   text, activeBlockIndex, history, setupVars, inputVars, encoder, exitCode,
                   obsVars, run, probeFrame>>

\* a 'close' handler that takes every exit code for success
OnClose_AlwaysResolves(code) ==
    IF closeListener /\ result.status = "pending"
      THEN /\ result' = Resolved(outputPath)
           /\ pc' = "resolved"
      ELSE UNCHANGED <<pc, result>>

\* ffmpegProcess.on('close', code => code === 0 ? resolve(outputPath) : reject(...))
OnClose(code) ==
    IF closeListener /\ result.status = "pending"
      THEN /\ result' = IF code = 0 THEN Resolved(outputPath) ELSE FfmpegError(code)
           /\ pc' = IF code = 0 THEN "resolved" ELSE "rejected"
      ELSE UNCHANGED <<pc, result>>

\* the encoder exits after its stdin was ended
EncoderClose ==
    /\ encoder = "running"
    /\ stdinEnded
    /\ \E code \in ExitCodes :
         /\ exitCode' = Some(code)
         /\ OnClose(code)
    /\ encoder' = "exited"
    /\ UNCHANGED <<loopVars, setupVars, inputVars, stdinEnded, closeListener, needDrain,
                   obsVars, run, probeFrame>>

\* the encoder exits on its own account, or after it was killed, before stdin
\* ended; its 'close' event is delivered while the render is at an await
EncoderDies ==
    /\ encoder \in {"running", "killed"}
    /\ ~stdinEnded
    /\ pc # "compose"
    /\ \E code \in ExitCodes :
         /\ exitCode' = Some(code)
         /\ OnClose(code)
    /\ encoder' = "exited"
    /\ closedDuringLoop' = (closedDuringLoop \/ pc \in LoopPcs)
    /\ UNCHANGED <<loopVars, setupVars, inputVars, stdinEnded, closeListener, needDrain,
                   written, lastFrame, composed, sinceYield, yielded, randCalls, thrown,
                   lastWriteOk, killCalls, run, probeFrame>>

Next ==
    \/ Invoke
    \/ InvokeTimeline
    \/ YieldResume
    \/ ComposeWrite
    \/ ComposeThrow
    \/ Drain
    \/ EncoderClose
    \/ EncoderDies

Spec == Init /\ [][Next]_vars

\* The render with an encoder that lives until its stdin is ended and a loop
\* body that does not throw; every setImmediate callback eventually runs, the
\* loop body runs when it is its turn, and a stream that owes a 'drain' emits it.
NextLive ==
    \/ Invoke
    \/ InvokeTimeline
    \/ YieldResume
    \/ ComposeWrite
    \/ Drain
    \/ EncoderClose

Scheduling ==
    /\ WF_vars(Invoke)
    /\ WF_vars(InvokeTimeline)
    /\ WF_vars(YieldResume)
    /\ WF_vars(ComposeWrite)
    /\ WF_vars(Drain)

LiveSpec == InitWith(PlainCalls, {0}) /\ [][NextLive]_vars /\ Scheduling

\* The same scheduling with an encoder that may exit at any time and a loop
\* body that may throw.
FairSpec == InitWith(PlainCalls, {0}) /\ [][Next]_vars /\ Scheduling

\* The same (text, config) rendered twice in a row by renderVideo.
NextTwice ==
    \/ Invoke
    \/ InvokeAgain
    \/ YieldResume
    \/ ComposeWrite
    \/ ComposeThrow
    \/ Drain
    \/ EncoderClose
    \/ EncoderDies

\* 'render-video' for one text: the promise of renderVideo settles and the
\* handler returns; a resolved value is a path, a non-empty string, so
\* `await renderVideo(...) || finalPath` is the resolved value
RenderVideoHandlerReturns ==
    /\ pc \in {"resolved", "rejected"}
    /\ entry = "renderVideo"
    /\ ~reply.sent
    /\ reply' = IF result.status = "resolved" THEN Success(result.n) ELSE Failure(result)
    /\ UNCHANGED <<pc, result, loopVars, setupVars, entry, cfg, files, probe, procVars,
                   obsVars, run, probeFrame, fontVars, sideVars>>

\* 'render-timeline-video': the value of `await renderTimeline(...)` is
\* dropped and the path chosen in the save dialog (the requested file 0) is
\* returned
RenderTimelineVideoHandlerReturns ==
    /\ pc \in {"resolved", "rejected"}
    /\ entry = "renderTimeline"
    /\ ~reply.sent
    /\ reply' = IF result.status = "resolved" THEN Success(0) ELSE Failure(result)
    /\ UNCHANGED <<pc, result, loopVars, setupVars, entry, cfg, files, probe, procVars,
                   obsVars, run, probeFrame, fontVars, sideVars>>

\* The two IPC handlers around the renderer, for short renders.
HandlerCalls ==
    VideoCalls(ShortConfigs)
      \cup TimelineCalls({c \in TimelineConfigs : c.fps = 2 /\ c.animationStyle = Absent})

NextHandlers ==
    \/ Next
    \/ RenderVideoHandlerReturns
    \/ RenderTimelineVideoHandlerReturns

HandlerSpec == InitWith(HandlerCalls, {0}) /\ [][NextHandlers]_vars

\* everything the font functions leave alone
renderVars == <<pc, result, loopVars, setupVars, entry, cfg, files, probe, reply,
                procVars, obsVars, run, probeFrame, sideVars>>

AlreadyLoaded_Never == FALSE

\* if (fontsLoaded) return 'Inter'
AlreadyLoaded == fontsLoaded

\* loadFonts(fontPath) up to its first safeRegisterFont call
LoadFonts ==
    /\ fontPc = FontIdle
    /\ fontCalls < MaxFontCalls
    /\ fontCalls' = fontCalls + 1
    /\ callNo' = callNo + 1
    /\ \E fontPath \in {Absent, Some("Inter-Medium.ttf")} :
         IF AlreadyLoaded
           THEN /\ fontReturn' = "Inter"
                /\ fontPc' = FontIdle
           ELSE /\ fontReturn' = "none"
                /\ fontPc' = IF fontPath # Absent THEN FontAt(1, 1) ELSE FontAt(2, 1)
    /\ UNCHANGED <<fontsLoaded, packaged, registered, systemLoads, renderVars>>

\* one call of safeRegisterFont and the loop step around it: the first
\* candidate that registers ends the family's loop
SafeRegisterFont ==
    /\ fontPc.at = "family"
    /\ \E file \in FontFiles :
         IF file = "ok"
           THEN /\ registered' = [registered EXCEPT ![fontPc.family] = @ + 1]
                /\ fontPc' = AfterFamily(fontPc.family)
           ELSE /\ registered' = registered
                /\ fontPc' =
                     IF fontPc.candidate < CandidatePaths(fontPc.family, packaged)
                       THEN FontAt(fontPc.family, fontPc.candidate + 1)
                       ELSE AfterFamily(fontPc.family)
    /\ UNCHANGED <<fontsLoaded, packaged, systemLoads, callNo, fontCalls, fontReturn,
                   renderVars>>

\* GlobalFonts.loadSystemFonts() inside try/catch, then the flag and the
\* return value
LoadSystemFonts ==
    /\ fontPc = FontSystem
    /\ systemLoads' = systemLoads + 1
    /\ fontsLoaded' = TRUE
    /\ fontReturn' = "Inter"
    /\ fontPc' = FontIdle
    /\ UNCHANGED <<packaged, registered, callNo, fontCalls, renderVars>>

\* resetFontCache; the counts start again with the flag
ResetFontCache ==
    /\ fontPc = FontIdle
    /\ callNo > 0
    /\ fontsLoaded' = FALSE
    /\ registered' = [family \in 1..Len(Families) |-> 0]
    /\ systemLoads' = 0
    /\ callNo' = 0
    /\ UNCHANGED <<fontPc, packaged, fontCalls, fontReturn, renderVars>>

NextFonts ==
    \/ LoadFonts
    \/ SafeRegisterFont
    \/ LoadSystemFonts
    \/ ResetFontCache

FontSpec ==
    /\ FontsInit(BOOLEAN)
    /\ RenderInit(VideoCalls(ShortConfigs), {0}, Dirs)
    /\ [][NextFonts]_vars

\* Short renders on canvases of several sizes, with and without safe-zone
\* padding, as exports and as previews.
SizedConfigs(configs) ==
    { Sized(c, width, height, padding, preview) :
        c \in configs, width \in Widths, height \in Heights,
        padding \in PaddingRatios, preview \in BOOLEAN }

SizedCalls ==
    VideoCalls(SizedConfigs(ShortConfigs))
      \cup { call \in TimelineCalls(SizedConfigs({c \in TimelineConfigs :
                                        c.fps = 2 /\ c.animationStyle = Absent})) :
               Len(call.timelineData) = 1 }

SizeSpec == InitWith(SizedCalls, {0}) /\ [][Next]_vars

\* Renders with compositing effects: motion blur, chromatic aberration, the
\* cursor, a transparent background, with and without safe-zone padding.
Looks ==
    { [chroma |-> Absent, showCursor |-> FALSE, cursorSpeed |-> Absent,
       exportFormat |-> Absent],
      [chroma |-> Absent, showCursor |-> TRUE, cursorSpeed |-> Some(2),
       exportFormat |-> Absent],
      [chroma |-> Some(2), showCursor |-> TRUE, cursorSpeed |-> Absent,
       exportFormat |-> Absent],
      [chroma |-> Some(2), showCursor |-> TRUE, cursorSpeed |-> Some(2),
       exportFormat |-> Some("mov_prores")] }

EffectConfigs(configs) ==
    { Sized(WithEffects(c, blur, look.chroma, look.showCursor, look.cursorSpeed,
                        look.exportFormat),
            c.width, c.height, padding, FALSE) :
        c \in configs, blur \in MotionBlurs, look \in Looks,
        padding \in {Absent, Some(25)} }

EffectCalls ==
    VideoCalls(EffectConfigs({ c \in Configs : /\ c.fps = 2
                                               /\ c.charsPerSecond = Some(2)
                                               /\ c.endHold = Absent }))
      \cup TimelineCalls(EffectConfigs({ c \in TimelineConfigs : c.fps = 2 }))

EffectSpec == InitFrom(EffectCalls, {0}, {{}}) /\ [][Next]_vars

\* Timeline renders of block lists with gaps, overlaps, empty blocks and
\* blocks given out of order.
SequenceTimelines ==
    { <<Block(0, 5, <<>>), Block(10, 5, TextOf(4))>>,
      <<Block(10, 5, TextOf(4)), Block(0, 5, TextOf(1))>>,
      <<Block(0, 10, TextOf(3)), Block(5, 10, TextOf(4))>>,
      <<Block(5, 5, TextOf(1)), Block(5, 10, TextOf(4)), Block(0, 5, <<>>)>> }

SequenceCalls ==
    VideoCalls(SlowConfigs)
      \cup { [fn |-> "renderTimeline", config |-> c, timelineData |-> t] :
               c \in TimelineConfigs, t \in SequenceTimelines }

SequenceSpec == InitFrom(SequenceCalls, {0}, {{}}) /\ [][Next]_vars

\* A second renderVideo call for the same outputPath enters while the first is
\* at an await: outputPath = getUniqueOutputPath(outputPath); spawnFfmpeg(...)
RivalInvoke ==
    /\ entry = "renderVideo"
    /\ rival.pc = "idle"
    /\ rival' = [pc |-> "running", outputPath |-> getUniqueOutputPath(files, 0)]
    /\ UNCHANGED <<pc, result, loopVars, setupVars, entry, cfg, files, probe, reply,
                   fontVars, editorVars, procVars, obsVars, run, probeFrame>>

\* the encoder process creates its output file, some time after it was spawned
EncoderOpensOutput ==
    /\ encoder = "running"
    /\ outputPath \notin files
    /\ files' = files \cup {outputPath}
    /\ UNCHANGED <<pc, result, loopVars, setupVars, entry, cfg, probe, reply, fontVars,
                   sideVars, procVars, obsVars, run, probeFrame>>

RivalEncoderOpensOutput ==
    /\ rival.pc = "running"
    /\ rival.outputPath \notin files
    /\ files' = files \cup {rival.outputPath}
    /\ UNCHANGED <<pc, result, loopVars, setupVars, entry, cfg, probe, reply, fontVars,
                   sideVars, procVars, obsVars, run, probeFrame>>

NextConcurrent ==
    \/ Invoke
    \/ RivalInvoke
    \/ EncoderOpensOutput
    \/ RivalEncoderOpensOutput
    \/ YieldResume
    \/ ComposeWrite
    \/ ComposeThrow
    \/ Drain
    \/ EncoderClose
    \/ EncoderDies

\* two renderVideo calls for the same path, interleaved at their awaits
ConcurrentSpec == InitFrom(VideoCalls(ShortConfigs), {0}, Dirs) /\ [][NextConcurrent]_vars

\* renderVideo alone
NextVideo ==
    \/ Invoke
    \/ YieldResume
    \/ ComposeWrite
    \/ ComposeThrow
    \/ Drain
    \/ EncoderClose
    \/ EncoderDies

\* renderVideo called with a frame rate or a typing rate that is not positive
RateSpec == InitWith(VideoCalls(NonPositiveRateConfigs), {0}) /\ [][NextVideo]_vars

SpecTwice == InitWith(VideoCalls(SlowConfigs), 0..MaxProbe) /\ [][NextTwice]_vars

\* Sequential renders of one short video into directories that already hold
\* any subset of the candidate file names.
NextPaths ==
    \/ Invoke
    \/ InvokeRepeat
    \/ YieldResume
    \/ ComposeWrite
    \/ ComposeThrow
    \/ Drain
    \/ EncoderClose
    \/ EncoderDies

PathSpec ==
    InitFrom(VideoCalls(ShortConfigs), {0}, SUBSET (0..MaxExisting)) /\ [][NextPaths]_vars

(***************************************************************************)
(* The timeline editor: blocks, mouse gestures, preview cache, export.        *)
(***************************************************************************)
MaxMouseDowns == 2
MaxRight == 5
MaxSources == 2
MaxClock == 3
AudioDuration == 3 * Second

\* what the editor's handlers leave alone
rendererVars == <<pc, result, loopVars, setupVars, entry, cfg, files, probe, reply,
                  fontVars, rival, procVars, obsVars, run, probeFrame>>

EditorBlock(id, raw, start, duration) ==
    [id |-> id, text |-> raw, start |-> start, duration |-> duration]

\* what getTimelineData resolves to: texts alone, or the blocks saved before
TimelineDatas ==
    { [blocks |-> <<>>, texts |-> <<"a", "b">>],
      [blocks |-> <<>>, texts |-> <<"a", "a">>],
      [blocks |-> <<EditorBlock(0, "a", 0, Second), EditorBlock(1, "b", 15000, 5000)>>,
       texts |-> <<"a", "b">>] }

\* e.clientX of the mouse events
ClientXs == {100, 350}

initTimelineBlocks(texts) ==
    [i \in 1..Len(texts) |->
        EditorBlock(i - 1, texts[i], (i - 1) * (InitialBlockDuration + InitialBlockGap),
                    InitialBlockDuration)]

\* exportBlocks.sort((a, b) => a.start - b.start): a stable sort
RankByStart(data, i) ==
    1 + Cardinality({ j \in 1..Len(data) :
                        \/ data[j].start < data[i].start
                        \/ data[j].start = data[i].start /\ j < i })

syncTimelineData(blocks) ==
    LET exportBlocks ==
            [i \in 1..Len(blocks) |->
                EditorBlock(blocks[i].id, blocks[i].text, toFixed3(blocks[i].start),
                            toFixed3(blocks[i].duration))]
    IN  [k \in 1..Len(blocks) |->
            exportBlocks[CHOOSE i \in 1..Len(blocks) : RankByStart(exportBlocks, i) = k]]

\* the for loop of preloadLiveVideosSeq from block `from` on, up to its next
\* await or its end
PreloadLoop(blocks, cache, from) ==
    LET todo == { j \in from..Len(blocks) : cache[blocks[j].text].kind = "none" }
        next == CHOOSE j \in todo : \A k \in todo : j <= k
    IN  IF todo = {}
        THEN [cache |-> cache, preloading |-> NotPreloading]
        ELSE [cache |-> [cache EXCEPT ![blocks[next].text] = Loading],
              preloading |-> [isPreloadingVideos |-> TRUE, index |-> next,
                              blockDuration |-> blocks[next].duration]]

preloadLiveVideosSeq(blocks, cache, pass) ==
    IF pass.isPreloadingVideos
    THEN [cache |-> cache, preloading |-> pass]
    ELSE PreloadLoop(blocks, cache, 1)

\* window 'DOMContentLoaded'
DomContentLoaded ==
    /\ timelineBlocksData = <<>>
    /\ \E data \in TimelineDatas :
         LET restored == Len(data.blocks) > 0 /\ Len(data.texts) = Len(data.blocks)
             blocks == IF restored THEN data.blocks ELSE initTimelineBlocks(data.texts)
             pass == preloadLiveVideosSeq(blocks, liveVideoCache, preloading)
         IN  /\ timelineBlocksData' = blocks
             /\ interaction' = [i \in 1..Len(blocks) |-> NoInteraction]
             /\ saved' = IF restored THEN saved ELSE syncTimelineData(blocks)
             /\ liveVideoCache' = pass.cache
             /\ preloading' = pass.preloading
    /\ UNCHANGED <<exporting, playback, previewPane, mouseDowns, rendererVars>>

\* buildLivePreview resolves or rejects, and the pass goes on
BuildLivePreviewReturns ==
    /\ preloading.isPreloadingVideos
    /\ \E success \in BOOLEAN :
         LET raw == timelineBlocksData[preloading.index].text
             cache == [liveVideoCache EXCEPT
                          ![raw] = IF success THEN Built(preloading.blockDuration)
                                   ELSE NotCached]
             pass == PreloadLoop(timelineBlocksData, cache, preloading.index + 1)
         IN  /\ liveVideoCache' = pass.cache
             /\ preloading' = pass.preloading
    /\ UNCHANGED <<timelineBlocksData, interaction, saved, exporting, playback,
                   previewPane, mouseDowns, rendererVars>>

\* mousedown on a block outside its handles
BlockMouseDown ==
    /\ mouseDowns < MaxMouseDowns
    /\ \E i \in 1..Len(timelineBlocksData), clientX \in ClientXs :
         interaction' = [interaction EXCEPT
                            ![i].isDragging = TRUE,
                            ![i].startX = clientX,
                            ![i].initialStart = timelineBlocksData[i].start]
    /\ mouseDowns' = mouseDowns + 1
    /\ UNCHANGED <<timelineBlocksData, liveVideoCache, preloading, saved, exporting,
                   playback, previewPane, rendererVars>>

LeftHandleMouseDown ==
    /\ mouseDowns < MaxMouseDowns
    /\ \E i \in 1..Len(timelineBlocksData), clientX \in ClientXs :
         interaction' = [interaction EXCEPT
                            ![i].isResizingLeft = TRUE,
                            ![i].startX = clientX,
                            ![i].initialStart = timelineBlocksData[i].start,
                            ![i].initialDuration = timelineBlocksData[i].duration]
    /\ mouseDowns' = mouseDowns + 1
    /\ UNCHANGED <<timelineBlocksData, liveVideoCache, preloading, saved, exporting,
                   playback, previewPane, rendererVars>>

RightHandleMouseDown ==
    /\ mouseDowns < MaxMouseDowns
    /\ \E i \in 1..Len(timelineBlocksData), clientX \in ClientXs :
         interaction' = [interaction EXCEPT
                            ![i].isResizingRight = TRUE,
                            ![i].startX = clientX,
                            ![i].initialDuration = timelineBlocksData[i].duration]
    /\ mouseDowns' = mouseDowns + 1
    /\ UNCHANGED <<timelineBlocksData, liveVideoCache, preloading, saved, exporting,
                   playback, previewPane, rendererVars>>

Engaged(g) == g.isDragging \/ g.isResizingLeft \/ g.isResizingRight

\* the left-resize branch of mousemove
ResizedLeft(b, g, deltaSec) ==
    LET movedStart == g.initialStart + deltaSec
        atZero == movedStart < 0
        newStart == IF atZero THEN 0 ELSE movedStart
        newDuration == IF atZero THEN g.initialDuration + g.initialStart
                       ELSE g.initialDuration - deltaSec
        short == newDuration < MinDuration
    IN  [b EXCEPT
            !.start = IF short THEN g.initialStart + g.initialDuration - MinDuration
                      ELSE newStart,
            !.duration = IF short THEN MinDuration ELSE newDuration]

\* one block's mousemove listener
Moved(b, g, clientX) ==
    LET deltaPx == clientX - g.startX
        deltaSec == (deltaPx * Second) \div pixelsPerSecond
    IN  IF ~Engaged(g) THEN b
        ELSE IF g.isDragging THEN [b EXCEPT !.start = Max(g.initialStart + deltaSec, 0)]
        ELSE IF g.isResizingLeft THEN ResizedLeft(b, g, deltaSec)
        ELSE [b EXCEPT !.duration = Max(g.initialDuration + deltaSec, MinDuration)]

\* document 'mousemove': every block's listener runs
MouseMove ==
    /\ \E i \in 1..Len(timelineBlocksData) : Engaged(interaction[i])
    /\ \E clientX \in ClientXs :
         LET blocks == [i \in 1..Len(timelineBlocksData) |->
                          Moved(timelineBlocksData[i], interaction[i], clientX)]
         IN  /\ \A i \in 1..Len(blocks) :
                    blocks[i].start + blocks[i].duration <= MaxRight * Second
             /\ timelineBlocksData' = blocks
    /\ UNCHANGED <<interaction, liveVideoCache, preloading, saved, exporting, playback,
                   previewPane, mouseDowns, rendererVars>>

\* the mouseup listeners of blocks i, i + 1, ..., in the order they were added
RECURSIVE MouseUpFrom(_, _, _, _)
MouseUpFrom(i, blocks, grips, st) ==
    IF i > Len(blocks) THEN st
    ELSE LET g == grips[i]
             b == blocks[i]
             rebuild == /\ g.isResizingLeft \/ g.isResizingRight
                        /\ Abs(b.duration - g.initialDuration) > RebuildThreshold
             pass == IF rebuild
                     THEN preloadLiveVideosSeq(blocks,
                              [st.cache EXCEPT ![b.text] = NotCached], st.preloading)
                     ELSE [cache |-> st.cache, preloading |-> st.preloading]
         IN  MouseUpFrom(i + 1, blocks, grips,
                 IF Engaged(g)
                 THEN [cache |-> pass.cache, preloading |-> pass.preloading,
                       saved |-> syncTimelineData(blocks)]
                 ELSE st)

\* document 'mouseup'
MouseUp ==
    /\ \E i \in 1..Len(timelineBlocksData) : Engaged(interaction[i])
    /\ LET st == MouseUpFrom(1, timelineBlocksData, interaction,
                     [cache |-> liveVideoCache, preloading |-> preloading,
                      saved |-> saved])
       IN  /\ liveVideoCache' = st.cache
           /\ preloading' = st.preloading
           /\ saved' = st.saved
    /\ interaction' = [i \in 1..Len(interaction) |->
                          [interaction[i] EXCEPT !.isDragging = FALSE,
                                                 !.isResizingLeft = FALSE,
                                                 !.isResizingRight = FALSE]]
    /\ UNCHANGED <<timelineBlocksData, exporting, playback, previewPane, mouseDowns,
                   rendererVars>>

\* timelineAudioInput 'change': the file is decoded
LoadAudio ==
    /\ ~playback.audioBuffer
    /\ playback' = [playback EXCEPT !.audioBuffer = TRUE,
                                    !.audioDuration = AudioDuration]
    /\ UNCHANGED <<timelineBlocksData, interaction, liveVideoCache, preloading, saved,
                   exporting, previewPane, mouseDowns, rendererVars>>

stopPreviewPlayback(pb) ==
    [pb EXCEPT
        !.sources = [i \in 1..Len(pb.sources) |->
                        IF i = pb.audioSource /\ pb.sources[i].state = "playing"
                        THEN [pb.sources[i] EXCEPT !.state = "stopped"]
                        ELSE pb.sources[i]],
        !.isPlaying = FALSE,
        !.animationFrame = FALSE]

\* timelineBlocksData.map(...).sort((a, b) => a.startTime - b.startTime)
TimelineExportData(blocks) ==
    SortByStartTime([i \in 1..Len(blocks) |->
                        Block(toFixed3(blocks[i].start), toFixed3(blocks[i].duration),
                              blocks[i].text)])

\* renderTimelineBtn 'click', up to its await
RenderTimelineClick ==
    /\ ~exporting.isTimelineRendering
    /\ playback.audioBuffer
    /\ Len(timelineBlocksData) > 0
    /\ playback' = IF playback.isPlaying THEN stopPreviewPlayback(playback) ELSE playback
    /\ exporting' = [isTimelineRendering |-> TRUE,
                     timelineExportData |-> TimelineExportData(timelineBlocksData)]
    /\ UNCHANGED <<timelineBlocksData, interaction, liveVideoCache, preloading, saved,
                   previewPane, mouseDowns, rendererVars>>

\* renderTimelineVideo resolves or rejects, and the handler returns
RenderTimelineSettles ==
    /\ exporting.isTimelineRendering
    /\ exporting' = NotExporting
    /\ UNCHANGED <<timelineBlocksData, interaction, liveVideoCache, preloading, saved,
                   playback, previewPane, mouseDowns, rendererVars>>

NextEditor ==
    \/ DomContentLoaded
    \/ BuildLivePreviewReturns
    \/ BlockMouseDown
    \/ LeftHandleMouseDown
    \/ RightHandleMouseDown
    \/ MouseMove
    \/ MouseUp
    \/ LoadAudio
    \/ RenderTimelineClick
    \/ RenderTimelineSettles

EditorCalls == { CHOOSE call \in VideoCalls(ShortConfigs) : TRUE }

\* the editor window alone: no render is started
EditorSpec == InitFrom(EditorCalls, {0}, {{}}) /\ [][NextEditor]_vars

(***************************************************************************)
(* The timeline editor: audio playback, playhead and seeking.             *)
(***************************************************************************)
\* the first block under the playhead, 0 when there is none
FoundBlock(blocks, timeSec) ==
    LET under == { i \in 1..Len(blocks) :
                     /\ timeSec >= blocks[i].start
                     /\ timeSec <= blocks[i].start + blocks[i].duration }
    IN  IF under = {} THEN 0 ELSE CHOOSE i \in under : \A k \in under : i <= k

\* activePreviewBlock and the video element's url after updatePlayheadPreview
updatePlayheadPreview(blocks, cache, pane, timeSec) ==
    LET foundBlock == FoundBlock(blocks, timeSec)
        vidUrl == IF foundBlock = 0 THEN NotCached ELSE cache[blocks[foundBlock].text]
    IN  [activePreviewBlock |-> foundBlock,
         cachedUrl |-> IF vidUrl.kind = "url" THEN vidUrl ELSE pane.cachedUrl]

\* audioContext.createBufferSource(), start(0, offset), and the variables set
\* along with it
StartSource(pb, offset, by) ==
    [pb EXCEPT !.sources = Append(pb.sources, AudioSource(offset, pb.currentTime, by)),
               !.audioSource = Len(pb.sources) + 1,
               !.playStartTime = pb.currentTime,
               !.isPlaying = TRUE]

\* playTimelineBtn 'click', or the space bar
TogglePlayback ==
    /\ playback.audioBuffer
    /\ IF playback.isPlaying
       THEN /\ playback' =
                  [stopPreviewPlayback(playback) EXCEPT
                      !.pauseTimeOffset = playback.pauseTimeOffset
                          + (playback.currentTime - playback.playStartTime)]
            /\ UNCHANGED previewPane
       ELSE /\ Len(playback.sources) < MaxSources
            /\ LET offset == IF playback.pauseTimeOffset >= playback.audioDuration
                             THEN 0 ELSE playback.pauseTimeOffset
               IN  /\ playback' =
                         [StartSource([playback EXCEPT !.pauseTimeOffset = offset],
                                      offset, "toggle")
                          EXCEPT !.playhead = TRUE, !.animationFrame = TRUE]
                   /\ previewPane' = updatePlayheadPreview(timelineBlocksData,
                                         liveVideoCache, previewPane, offset)
    /\ UNCHANGED <<timelineBlocksData, interaction, liveVideoCache, preloading, saved,
                   exporting, mouseDowns, rendererVars>>

\* a frame requested by loop() arrives
AnimationFrame ==
    /\ playback.animationFrame
    /\ IF playback.isPlaying
       THEN /\ previewPane' =
                  updatePlayheadPreview(timelineBlocksData, liveVideoCache, previewPane,
                      playback.pauseTimeOffset
                          + (playback.currentTime - playback.playStartTime))
            /\ UNCHANGED playback
       ELSE /\ playback' = [playback EXCEPT !.animationFrame = FALSE]
            /\ UNCHANGED previewPane
    /\ UNCHANGED <<timelineBlocksData, interaction, liveVideoCache, preloading, saved,
                   exporting, mouseDowns, rendererVars>>

\* mousedown on the timeline outside the blocks: seek
SeekMouseDown ==
    /\ playback.audioBuffer
    /\ mouseDowns < MaxMouseDowns
    /\ \E clientX \in ClientXs :
         LET timeSec == Min(Max((clientX * Second) \div pixelsPerSecond, 0),
                            playback.audioDuration)
             sought == [playback EXCEPT !.pauseTimeOffset = timeSec, !.playhead = TRUE]
         IN  /\ playback.isPlaying => Len(playback.sources) < MaxSources
             /\ playback' = IF playback.isPlaying
                            THEN StartSource(stopPreviewPlayback(sought), timeSec, "seek")
                            ELSE sought
             /\ previewPane' = updatePlayheadPreview(timelineBlocksData, liveVideoCache,
                                   [previewPane EXCEPT !.activePreviewBlock = 0], timeSec)
    /\ mouseDowns' = mouseDowns + 1
    /\ UNCHANGED <<timelineBlocksData, interaction, liveVideoCache, preloading, saved,
                   exporting, rendererVars>>

\* source i has played its buffer to the end
PlayedOut(pb, i) ==
    /\ pb.sources[i].state = "playing"
    /\ pb.currentTime - pb.sources[i].startedAt >= pb.audioDuration - pb.sources[i].offset

\* the 'ended' event of source i: it was stopped, or it has played to the end
AudioEnded ==
    \E i \in 1..Len(playback.sources) :
        /\ playback.sources[i].state = "stopped" \/ PlayedOut(playback, i)
        /\ IF playback.isPlaying
           THEN /\ playback' = [playback EXCEPT !.sources[i].state = "ended",
                                                !.isPlaying = FALSE,
                                                !.pauseTimeOffset = 0,
                                                !.animationFrame = FALSE,
                                                !.playhead = FALSE]
                /\ previewPane' = updatePlayheadPreview(timelineBlocksData,
                                      liveVideoCache, previewPane, 0)
           ELSE /\ playback' = [playback EXCEPT !.sources[i].state = "ended"]
                /\ UNCHANGED previewPane
        /\ UNCHANGED <<timelineBlocksData, interaction, liveVideoCache, preloading,
                       saved, exporting, mouseDowns, rendererVars>>

\* audioContext.currentTime advances; a buffer that has played to its end
\* emits 'ended' before another second has passed
ClockTick ==
    /\ playback.audioBuffer
    /\ playback.currentTime < MaxClock * Second
    /\ \A i \in 1..Len(playback.sources) : ~PlayedOut(playback, i)
    /\ playback' = [playback EXCEPT !.currentTime = playback.currentTime + Second]
    /\ UNCHANGED <<timelineBlocksData, interaction, liveVideoCache, preloading, saved,
                   exporting, previewPane, mouseDowns, rendererVars>>

NextPlayback ==
    \/ DomContentLoaded
    \/ BuildLivePreviewReturns
    \/ LoadAudio
    \/ TogglePlayback
    \/ AnimationFrame
    \/ SeekMouseDown
    \/ AudioEnded
    \/ ClockTick

\* the editor window with audio: playback and seeking, no block gestures
PlaybackSpec == InitFrom(EditorCalls, {0}, {{}}) /\ [][NextPlayback]_vars

(***************************************************************************)
(* The frame emission pipe.                                                *)
(***************************************************************************)
SameRun == run' = run

\* C1: stream.write for the next frame is never called, and no frame is
\* composed, while the stream still owes a 'drain' for a write that returned
\* false.
BackpressureRespected ==
    [][SameRun /\ (written' # written \/ composed' # composed) => ~needDrain]_vars

\* a timeline frame is about to be composed after a backpressured write was
\* drained
ResumedAfterDrain ==
    /\ entry = "renderTimeline"
    /\ pc = "compose" /\ f >= 1 /\ ~lastWriteOk /\ ~needDrain /\ Len(written) = f

AllFrames(n) == [i \in 1..n |-> i - 1]

\* C2: the frames written are 0, 1, 2, ... in this order, each once; stdin is
\* ended, and the render resolves, only with all totalFrames frames written and
\* no drain outstanding.
FramesInOrderThenEnd ==
    /\ written = AllFrames(Len(written))
    /\ Len(written) <= totalFrames
    /\ (stdinEnded \/ result.status = "resolved") =>
          (written = AllFrames(totalFrames) /\ ~needDrain /\ stdinEnded)

\* a render resolved after a run in which the last write was backpressured
ResolvedAfterAllFrames ==
    /\ result.status = "resolved"
    /\ totalFrames > YieldEvery
    /\ Len(written) = totalFrames
    /\ ~lastWriteOk

(***************************************************************************)
(* Errors and the encoder's exit.                                          *)
(***************************************************************************)
\* C3: once frame N threw inside the loop, frame N and every later frame stay
\* unwritten, stdin is not ended, the encoder was killed, and the render is
\* rejected with the error that was thrown; the loop does not run on.
ThrowAbortsRender ==
    thrown # Absent =>
        LET frame == Val(thrown)[1]
            err == Val(thrown)[2]
        IN  /\ \A i \in 1..Len(written) : written[i] < frame
            /\ ~stdinEnded
            /\ ~closeListener
            /\ killCalls = 1
            /\ encoder \in {"killed", "exited"}
            /\ pc = "rejected"
            /\ result.status = "rejected"
            /\ result.kind = "thrown"
            /\ result.err = err

\* frame 3 threw after three frames were written, the last one backpressured
ThrewMidRender ==
    /\ thrown # Absent
    /\ Val(thrown)[1] = 3
    /\ Len(written) = 3
    /\ ~lastWriteOk
    /\ result.status = "rejected"

\* C5: with all frames written and stdin ended, the render is settled by the
\* exit code of the encoder's 'close' event that follows: resolved with the
\* output path exactly for code 0, rejected with an error carrying the code
\* otherwise, and pending until then; the encoder is spawned once per
\* invocation.  (An encoder that closed while the loop was still running is
\* the case of C4.)
SettledByExitCode ==
    /\ pc # "idle" => spawnCount = 1
    /\ (stdinEnded /\ exitCode = Absent) => result.status = "pending"
    /\ (stdinEnded /\ exitCode # Absent /\ ~closedDuringLoop) =>
          IF Val(exitCode) = 0
            THEN result.status = "resolved" /\ result.kind = "path"
                 /\ result.n = outputPath
            ELSE result.status = "rejected" /\ result.kind = "ffmpeg"
                 /\ result.n = Val(exitCode)
    /\ result.status = "resolved" => (stdinEnded /\ exitCode = Some(0))

\* a fully written render rejected with the encoder's non-zero exit code
RejectedWithExitCode ==
    /\ stdinEnded
    /\ Len(written) = totalFrames
    /\ exitCode = Some(1)
    /\ result.status = "rejected"

\* C4 (as claimed): once the encoder has emitted 'close' while the frame loop
\* was running, the render is eventually rejected.
EncoderExitRejectsRender == closedDuringLoop ~> (result.status = "rejected")

\* C6: with every owed 'drain' delivered and every setImmediate callback run,
\* the loop ends after exactly totalFrames writes; and while a 'drain' is owed
\* and not delivered the loop stays suspended: nothing is composed or written.
LoopTerminates ==
    /\ <>(stdinEnded /\ Len(written) = totalFrames)
    /\ [][pc = "drain" /\ needDrain' =>
             pc' = "drain" /\ written' = written /\ composed' = composed]_vars

\* the loop of a long render ended, its last write having been backpressured
LoopEndedAfterBackpressure ==
    /\ stdinEnded
    /\ exitCode = Absent
    /\ totalFrames > 2 * YieldEvery
    /\ Len(written) = totalFrames
    /\ ~lastWriteOk

(***************************************************************************)
(* Cooperative yielding.                                                   *)
(***************************************************************************)
\* C7: frame f is composed right after a yield exactly when f mod 10 = 0,
\* whatever the writes returned, so at most 10 frames are written between two
\* yields.
YieldCadence ==
    /\ [](sinceYield <= 10)
    /\ [][SameRun /\ composed' = composed + 1 => (yielded <=> (f % 10 = 0))]_vars

\* a timeline render wrote ten frames since the yield before frame 0 and
\* yields again before frame 10
TenFramesBetweenYields ==
    /\ entry = "renderTimeline"
    /\ sinceYield = 10
    /\ f = 10
    /\ pc = "yield"

(***************************************************************************)
(* Reveal clock.                                                           *)
(***************************************************************************)
\* C9: in a single-block render visibleCount never decreases from one frame
\* to the next and always lies in 0..totalChars.
VisibleCountMonotone ==
    /\ [](entry = "renderVideo" => lastFrame.visibleCount \in 0..Len(text))
    /\ [][entry = "renderVideo" /\ SameRun /\ composed' = composed + 1 =>
             lastFrame'.visibleCount >= lastFrame.visibleCount]_vars

\* the whole text is revealed, the reveal having passed through a partial count
FullyRevealed ==
    /\ entry = "renderVideo"
    /\ Len(text) >= 2
    /\ lastFrame.visibleCount = Len(text)
    /\ lastFrame.index > (Len(text) * cfg.fps) \div CharsPerSecond(cfg)

(***************************************************************************)
(* Reproducibility.                                                        *)
(***************************************************************************)
IsGlitchDraw(d, c, frame) ==
    d.glyph.kind = "subst" =>
        /\ d.glyph = SubstGlyph(GlitchGlyph(frame, d.index, GlitchSpeedPct(c),
                                            c.glitchCharset))
        /\ d.xOffset = GlitchOffset(frame, d.index, GlitchSpeedPct(c))
        /\ d.glyph.at \in 0..(CharsetLen(c.glitchCharset) - 1)

\* C8: with jitter = 0 Math.random is never called, a frame of the second
\* render of the same (text, config) equals the same frame of the first, and a
\* substituted glyph and its offset are the function of (frame, character
\* index, glitchSpeed, glitchCharset) alone.
RenderReproducible ==
    (entry = "renderVideo" /\ cfg.jitter = 0) =>
        /\ randCalls = 0
        /\ (run = 2 /\ lastFrame.index = probe /\ probeFrame.index = probe) =>
              lastFrame = probeFrame
        /\ \A i \in 1..Len(lastFrame.layer) :
              IsGlitchDraw(lastFrame.layer[i], cfg, lastFrame.index)

\* the second glitch render has composed the compared frame, which substitutes
\* a glyph
SecondRenderCompared ==
    /\ entry = "renderVideo"
    /\ run = 2
    /\ cfg.jitter = 0
    /\ StyleOf(cfg) = "glitch"
    /\ probe >= 1
    /\ lastFrame.index = probe
    /\ probeFrame.index = probe
    /\ \E i \in 1..Len(lastFrame.layer) : lastFrame.layer[i].glyph.kind = "subst"

\* C10 (as claimed): the number of frames written is
\* ceil((totalChars / charsPerSecond + endHold) * fps) for every configured
\* endHold >= 0, endHold = 0 included.
FrameCountUsesConfiguredEndHold ==
    (entry = "renderVideo" /\ stdinEnded) =>
        Len(written) =
            CeilDiv((10 * Len(text)
                       + Default(cfg.endHold, DefaultEndHoldTenths) * CharsPerSecond(cfg))
                      * cfg.fps,
                    10 * CharsPerSecond(cfg))

(***************************************************************************)
(* Settled characters.                                                     *)
(***************************************************************************)
\* frame >= startFrame(index) + revealFrames, startFrame = (index / cps) * fps
PastReveal(frame, index, cps, fps, revealFrames) ==
    frame * cps >= index * fps + revealFrames * cps

\* the resolved draw of character `index` in the frame is at rest: opacity 1, xOffset 0
AtRest(frame, index) ==
    \E k \in 1..Len(frame.decisions) :
        /\ frame.decisions[k].index = index
        /\ frame.decisions[k].opacity = RatOne
        /\ frame.decisions[k].xOffset = RatZero

\* C11 (as claimed): in default style every character i is at rest, with
\* opacity exactly 1 and xOffset exactly 0, on every frame
\* f >= startFrame(i) + revealFrames.
DefaultCharSettled ==
    (entry = "renderVideo" /\ StyleOf(cfg) = "default" /\ lastFrame.index >= 0) =>
        \A i \in 0..(Len(text) - 1) :
            PastReveal(lastFrame.index, i, CharsPerSecond(cfg), cfg.fps,
                       RevealFrames(cfg))
              => AtRest(lastFrame, i)

(***************************************************************************)
(* Timeline sequencer.                                                     *)
(***************************************************************************)
\* startTime <= t <= startTime + duration at t = frame / fps
TimeWithin(block, frame, fps) ==
    /\ block.startTime * fps <= 10 * frame
    /\ 10 * frame <= (block.startTime + block.duration) * fps

\* the blocks [{AB, start 0, duration 2}, {CD, start 3, duration 2}]
ExampleTimeline == <<Block(0, 20, <<"a", "a">>), Block(30, 20, <<"a", "a">>)>>

\* no block is active at t = 2.5; block 0 is active at t = 1, its
\* blockCharsPerSecond being 1
ExampleSequenced(fps) ==
    /\ \A fr \in 0..(5 * fps) :
         /\ 10 * fr = 25 * fps => CurrentBlockIndex(ExampleTimeline, fr, fps) = -1
         /\ 10 * fr = 10 * fps => CurrentBlockIndex(ExampleTimeline, fr, fps) = 0
    /\ BlockCharsPerSecond(ExampleTimeline[1], 2) = RatOne

\* C12: on every timeline frame the block list is in ascending startTime
\* order and the active block is the first block of it whose interval
\* [startTime, startTime + duration], both ends included, contains the frame
\* time f / fps; no block is active exactly when none contains it.
ActiveBlockIsFirstMatch ==
    (entry = "renderTimeline" /\ lastFrame.index >= 0) =>
        LET n == Len(timelineData)
            within(i) == TimeWithin(timelineData[i], lastFrame.index, cfg.fps)
        IN  /\ \A i \in 1..n : \A j \in i..n :
                 timelineData[i].startTime <= timelineData[j].startTime
            /\ lastFrame.block = activeBlockIndex
            /\ lastFrame.block \in -1..(n - 1)
            /\ lastFrame.block = -1 <=> (\A i \in 1..n : ~within(i))
            /\ lastFrame.block # -1 =>
                  /\ within(lastFrame.block + 1)
                  /\ \A j \in 1..lastFrame.block : ~within(j)
            /\ ExampleSequenced(cfg.fps)

\* a frame at the very end of the first block, where the second block has
\* started too: the first block is the active one
FirstOfTwoBlocksActive ==
    /\ entry = "renderTimeline"
    /\ Len(timelineData) = 2
    /\ lastFrame.index >= 1
    /\ lastFrame.block = 0
    /\ 10 * lastFrame.index = (timelineData[1].startTime + timelineData[1].duration)
                                 * cfg.fps
    /\ TimeWithin(timelineData[2], lastFrame.index, cfg.fps)

\* C13 (as claimed): on the last frame at which a block with non-empty text is
\* active (the next frame has another block or none, or the render is over),
\* visibleCount equals the length of the block's text.
RevealCompletesInBlock ==
    /\ []((entry = "renderTimeline" /\ stdinEnded /\ lastFrame.block # -1
            /\ Len(text) > 0) => lastFrame.visibleCount = Len(text))
    /\ [][(entry = "renderTimeline" /\ SameRun /\ composed' = composed + 1
             /\ lastFrame.block # -1 /\ lastFrame'.block # lastFrame.block
             /\ Len(text) > 0) => lastFrame.visibleCount = Len(text)]_vars

\* what the claim says getUniqueOutputPath returns for the requested file 0
\* in a directory holding `existing`
IsFirstFree(existing, chosen) ==
    /\ chosen \notin existing
    /\ (0 \notin existing => chosen = 0)
    /\ (0 \in existing =>
          /\ chosen >= 1
          /\ \A k \in 1..(chosen - 1) : k \in existing)

\* C14: the output path of a render is the requested path when no file is
\* there and otherwise the candidate with the smallest counter k >= 1 that
\* names no existing file; it never names an existing file, so renders that
\* follow one another into an empty directory resolve to the requested
\* path, then to counter 1, then to counter 2.
UniquePathIsFirstFree ==
    /\ [][spawnCount' = 1 /\ (pc = "idle" \/ run' # run)
            => IsFirstFree(files', outputPath')]_vars
    /\ [][(run' = run + 1 /\ files' = 0..(run - 1)) => outputPath' = run]_vars
    /\ [](\A existing \in SUBSET (0..MaxExisting) :
             IsFirstFree(existing, getUniqueOutputPath(existing, 0)))

ThirdRenderGetsSecondCounter ==
    /\ run = 3
    /\ files = {0, 1}
    /\ outputPath = 2
    /\ result.status = "resolved"

\* C15 (as claimed): a handler that reports success reports the path the
\* encoder was given, the one getUniqueOutputPath returned.
ReplyNamesEncoderPath ==
    (reply.sent /\ reply.success) => reply.outputPath = Some(outputPath)

FontRegistry == <<registered, systemLoads>>

\* C16: between two resets of the font cache only the first call of
\* loadFonts registers anything (GlobalFonts.register, loadSystemFonts);
\* every later call returns 'Inter' and leaves the registry alone, so that
\* no family is registered more than once.
LoadFontsIdempotent ==
    /\ [][(FontRegistry' # FontRegistry /\ callNo' # 0) => callNo' = 1]_vars
    /\ [][(callNo' = callNo + 1 /\ callNo >= 1) =>
              (fontReturn' = "Inter" /\ fontPc' = FontIdle /\ FontRegistry' = FontRegistry)]_vars
    /\ [](systemLoads <= 1 /\ \A family \in 1..Len(Families) : registered[family] <= 1)
    /\ []((fontPc = FontIdle /\ callNo >= 1) => (fontsLoaded /\ fontReturn = "Inter"))

LaterCallAfterFullRegistration ==
    /\ callNo = 2
    /\ fontPc = FontIdle
    /\ fontReturn = "Inter"
    /\ systemLoads = 1
    /\ \A family \in 1..Len(Families) : registered[family] = 1

\* the claim's case of a padded render
PaddedExport ==
    cfg.paddingRatio # Absent /\ Val(cfg.paddingRatio) > 0 /\ ~cfg.isPreview

\* C17: every frame written has (width + 2*marginX) * (height + 2*marginY) * 4
\* bytes, and the encoder was spawned with exactly that width and height;
\* the margins are zero unless paddingRatio > 0 and the render is not a
\* preview, and are then round(width * paddingRatio) and
\* round(height * paddingRatio).
BufferMatchesEncoderSize ==
    spawnCount = 1 =>
        /\ (lastFrame.index >= 0 =>
             /\ lastFrame.bytes = (cfg.width + 2 * marginX) * (cfg.height + 2 * marginY) * 4
             /\ lastFrame.bytes = exportConfig.width * exportConfig.height * 4)
        /\ exportConfig.width = cfg.width + 2 * marginX
        /\ exportConfig.height = cfg.height + 2 * marginY
        /\ ((marginX # 0 \/ marginY # 0) => PaddedExport)
        /\ (PaddedExport =>
               \* round(x) is the integer within one half of x, halves upwards
               /\ 200 * marginX - 100 <= 2 * cfg.width * Val(cfg.paddingRatio)
               /\ 2 * cfg.width * Val(cfg.paddingRatio) < 200 * marginX + 100
               /\ 200 * marginY - 100 <= 2 * cfg.height * Val(cfg.paddingRatio)
               /\ 2 * cfg.height * Val(cfg.paddingRatio) < 200 * marginY + 100)

PaddedFrameWritten ==
    /\ Len(written) >= 1
    /\ cfg.paddingRatio = Some(25)
    /\ ~cfg.isPreview
    /\ marginX = 1
    /\ marginY = 1
    /\ cfg.width = 5
    /\ cfg.height = 2
    /\ lastFrame.index = written[Len(written)]
    /\ lastFrame.bytes = 7 * 4 * 4

\* C18 (as claimed): no step of a render changes the caller's config or the
\* caller's list of timeline blocks, the order of the blocks included.
InputsReadOnly == [][cfg' = cfg /\ timelineData' = timelineData]_vars

\* C19 (as claimed): a render called with fps <= 0 or charsPerSecond <= 0
\* writes no frame and does not resolve.
NonPositiveRateRefused ==
    (cfg.fps <= 0 \/ CharsPerSecond(cfg) <= 0) =>
        (written = <<>> /\ result.status # "resolved")

\* C20 (as claimed): in every style, in the single-block and in the timeline
\* renderer, every glyph drawn belongs to a character whose opacity is above
\* 0.01 and whose own char is not whitespace.
NoGlyphForBlankOrHidden ==
    \A k \in 1..Len(lastFrame.layer) :
        /\ 100 * lastFrame.layer[k].opacity[1] > lastFrame.layer[k].opacity[2]
        /\ ~IsBlank(lastFrame.layer[k].char)

(***************************************************************************)
(* Per-character animation.                                                *)
(***************************************************************************)
\* the frame just composed shows text: any single-block frame, a timeline
\* frame with an active block
ShowsText(frame) ==
    /\ frame.index >= 0
    /\ (entry = "renderTimeline" => frame.block # -1)

\* progress of character `index` on the frame, at the frame's own time
ProgressOn(frame, index) ==
    IF entry = "renderVideo"
      THEN Progress(frame.index, 0, 1, index, CharsPerSecond(cfg), cfg.fps,
                    RevealFrames(cfg))
      ELSE TimelineProgress(frame.index, 0, 1, index, timelineData[frame.block + 1],
                            Len(text), cfg.fps, RevealFrames(cfg))

\* the eased reveal of the claim: opacity = easeOutCubic(p),
\* xOffset = revealOffsetPx * (1 - opacity)
EasedIn(d, p) ==
    /\ d.opacity = easeOutCubic(p)
    /\ d.xOffset = Rat(RevealOffsetPx(cfg) * (d.opacity[2] - d.opacity[1]), d.opacity[2])

\* C21 (as claimed): in default style the character revealed last, index =
\* visibleCount - 1, for every visibleCount in 1..totalChars, is eased in
\* while 0 < progress < 1, hidden while progress <= 0 and at rest with
\* opacity 1 once progress >= 1.
NewestCharEased ==
    (StyleOf(cfg) = "default" /\ ShowsText(lastFrame) /\ lastFrame.visibleCount >= 1) =>
        \A k \in 1..Len(lastFrame.decisions) :
            LET d == lastFrame.decisions[k]
                p == ProgressOn(lastFrame, d.index)
            IN  d.index = lastFrame.visibleCount - 1 =>
                   /\ (p[1] > 0 /\ p[1] < p[2]) => EasedIn(d, p)
                   /\ p[1] <= 0 => d.opacity = RatZero
                   /\ p[1] >= p[2] => (d.opacity = RatOne /\ d.xOffset = RatZero)

\* the frame composed by this step follows, in the same render and for the
\* same text, the frame composed before it
NextFrameOfSameText ==
    /\ SameRun
    /\ composed' = composed + 1
    /\ ShowsText(lastFrame)
    /\ lastFrame'.block = lastFrame.block
    /\ Len(lastFrame'.decisions) = Len(lastFrame.decisions)

\* C22: in typewriter style a character's opacity is 0 while progress <= 0
\* and exactly 1 otherwise, its xOffset is always 0, and from one frame to
\* the next no character's opacity decreases.
TypewriterHardCut ==
    /\ []((StyleOf(cfg) = "typewriter" /\ ShowsText(lastFrame)) =>
             /\ Len(lastFrame.decisions) = Len(text)
             /\ \A k \in 1..Len(lastFrame.decisions) :
                  LET d == lastFrame.decisions[k]
                      p == ProgressOn(lastFrame, d.index)
                  IN  /\ d.index = k - 1
                      /\ d.opacity = IF p[1] <= 0 THEN RatZero ELSE RatOne
                      /\ d.xOffset = RatZero)
    /\ [][(StyleOf(cfg) = "typewriter" /\ NextFrameOfSameText) =>
             \A k \in 1..Len(lastFrame.decisions) :
                 lastFrame'.decisions[k].opacity[1] >= lastFrame.decisions[k].opacity[1]]_vars

TypewriterPartlyShown ==
    /\ StyleOf(cfg) = "typewriter"
    /\ entry = "renderVideo"
    /\ lastFrame.index >= 2
    /\ Len(lastFrame.decisions) >= 3
    /\ lastFrame.decisions[1].opacity = RatOne
    /\ lastFrame.decisions[2].opacity = RatOne
    /\ lastFrame.decisions[Len(lastFrame.decisions)].opacity = RatZero

\* the phase a glitch-style draw decision shows: 0 hidden, 1 substituted,
\* 2 the true glyph at rest
GlitchPhaseOf(d) ==
    IF d.opacity = RatZero THEN 0
    ELSE IF d.glyph.kind = "subst" THEN 1
    ELSE 2

\* C23: in glitch style a character is hidden for progress <= -1, drawn
\* with opacity 1 as a glyph of the configured charset (its position within
\* 0..len-1) for -1 < progress <= 1.5, and drawn as its true glyph with
\* opacity 1 and xOffset 0 for progress > 1.5; from one frame to the next
\* no character goes back to an earlier phase.
GlitchThreePhases ==
    /\ []((StyleOf(cfg) = "glitch" /\ ShowsText(lastFrame)) =>
             \A k \in 1..Len(lastFrame.decisions) :
                 LET d == lastFrame.decisions[k]
                     p == ProgressOn(lastFrame, d.index)
                 IN  /\ p[1] <= -p[2] => d.opacity = RatZero
                     /\ (p[1] > -p[2] /\ 2 * p[1] <= 3 * p[2]) =>
                           /\ d.opacity = RatOne
                           /\ d.glyph.kind = "subst"
                           /\ d.glyph.set = cfg.glitchCharset
                           /\ d.glyph.at \in 0..(CharsetLen(cfg.glitchCharset) - 1)
                     /\ 2 * p[1] > 3 * p[2] =>
                           /\ d.opacity = RatOne
                           /\ d.xOffset = RatZero
                           /\ d.glyph = TrueGlyph(d.char))
    /\ [][(StyleOf(cfg) = "glitch" /\ NextFrameOfSameText) =>
             \A k \in 1..Len(lastFrame.decisions) :
                 GlitchPhaseOf(lastFrame'.decisions[k])
                   >= GlitchPhaseOf(lastFrame.decisions[k])]_vars

AllGlitchPhasesShown ==
    /\ StyleOf(cfg) = "glitch"
    /\ ShowsText(lastFrame)
    /\ \A ph \in 0..2 :
         \E k \in 1..Len(lastFrame.decisions) :
             GlitchPhaseOf(lastFrame.decisions[k]) = ph

(***************************************************************************)
(* The two renderers compared.                                             *)
(***************************************************************************)
\* the one-block timeline of the claim for the render under way: the same
\* raw text from time 0 for len(text) / charsPerSecond seconds
TwinBlock == Block(0, (10 * Len(text)) \div CharsPerSecond(cfg), cfg.rawText)

\* what renderTimelineToStream decides for frame `frame` of TwinBlock
TwinVisibleCount(frame) == TimelineVisibleCount(frame, cfg.fps, TwinBlock, Len(text))
TwinFlatChars(frame) ==
    getFlatCharacterPositions(LayoutText(cfg, text, TwinVisibleCount(frame)))
TwinDecisions(frame) ==
    TimelineDecisions(cfg, TwinFlatChars(frame), frame, TwinBlock,
                      TwinVisibleCount(frame), Len(text))
TwinLayer(frame) ==
    TimelineLayer(cfg, TwinFlatChars(frame), frame, TwinBlock,
                  TwinVisibleCount(frame), Len(text))

\* C24 (as claimed): on every frame at which the one-block timeline
\* (startTime 0, duration len(text)/c) is active, the timeline renderer
\* takes the same draw decisions for every character, drawn or skipped
\* included, as the single-block renderer with charsPerSecond = c.
TimelineMatchesSingleBlock ==
    (/\ entry = "renderVideo"
     /\ lastFrame.index >= 0
     /\ Len(text) > 0
     /\ TimeWithin(TwinBlock, lastFrame.index, cfg.fps)) =>
        /\ TwinVisibleCount(lastFrame.index) = lastFrame.visibleCount
        /\ TwinDecisions(lastFrame.index) = lastFrame.decisions
        /\ TwinLayer(lastFrame.index) = lastFrame.layer

(***************************************************************************)
(* Shake.                                                                  *)
(***************************************************************************)
\* `next` is 0.9 times `prev`, to the thousandth kept
IsDecayOf(next, prev) == 10 * next <= 9 * prev /\ 9 * prev < 10 * next + 10

\* the step composes one more frame of the render under way
ComposesFrame == SameRun /\ composed' = composed + 1

\* the visible count of the frame composed by the step differs from the
\* previous frame's (the first frame has no previous one)
CountChanges == lastFrame.index < 0 \/ lastFrame'.visibleCount # lastFrame.visibleCount

\* C25: in single-block mode shakeTrauma starts at 0; a frame whose
\* visibleCount differs from the previous frame's, with visibleCount > 0 and
\* jitter > 0, sets it to jitter, every other frame to 0.9 times its value;
\* so 0 <= shakeTrauma <= max(jitter, 0), and shakeX, shakeY are non-zero
\* only with shakeTrauma > 0.5 and never exceed shakeTrauma in size.
SegmentTraumaRule ==
    /\ [](entry = "renderVideo" =>
             /\ composed = 0 => shakeTrauma = 0
             /\ shakeTrauma >= 0
             /\ shakeTrauma <= Max(cfg.jitter, 0) * 1000
             /\ (lastFrame.shakeX # 0 \/ lastFrame.shakeY # 0) => shakeTrauma > 500
             /\ Abs(lastFrame.shakeX) <= shakeTrauma
             /\ Abs(lastFrame.shakeY) <= shakeTrauma)
    /\ [][(entry = "renderVideo" /\ ComposesFrame) =>
             IF CountChanges /\ lastFrame'.visibleCount > 0 /\ cfg.jitter > 0
               THEN shakeTrauma' = cfg.jitter * 1000
               ELSE IsDecayOf(shakeTrauma', shakeTrauma)]_vars

ShakingWhileDecaying ==
    /\ entry = "renderVideo"
    /\ shakeTrauma > 500
    /\ shakeTrauma < cfg.jitter * 1000
    /\ lastFrame.shakeX # 0
    /\ lastFrame.shakeY # 0

\* C26 (as claimed): in timeline mode every output frame, a frame with no
\* active block included, multiplies shakeTrauma by 0.9, unless the frame
\* resets it to jitter; a gap of g frames so leaves 0.9^g of the trauma.
TimelineTraumaDecaysEveryFrame ==
    [][(entry = "renderTimeline" /\ ComposesFrame) =>
          \/ IsDecayOf(shakeTrauma', shakeTrauma)
          \/ /\ lastFrame'.block # -1
             /\ lastFrame'.visibleCount > 0
             /\ cfg.jitter > 0
             /\ shakeTrauma' = cfg.jitter * 1000]_vars

\* the steps of a frame with the given name, and the renderChar calls a text
\* layer made for the character with the given index
StepsNamed(frame, name) == SelectSeq(frame.ops, LAMBDA o : o.op = name)
CallsFor(step, index) == SelectSeq(step.calls, LAMBDA call : call.index = index)

\* the character of the frame's layout is rendered once at full weight
RenderedOnce(step, charObj) ==
    LET calls == CallsFor(step, charObj.index)
    IN  /\ Len(calls) = 1
        /\ calls[1].weight = RatOne
        /\ calls[1].sample = 0

\* the character is rendered on each of n sub-samples, at frame - s / n, with
\* weight 1 / n
RenderedSampled(step, charObj, frame, n) ==
    LET calls == CallsFor(step, charObj.index)
    IN  /\ Len(calls) = n
        /\ \A s \in 0..(n - 1) :
              /\ calls[s + 1].sample = s
              /\ calls[s + 1].samples = n
              /\ n * calls[s + 1].weight[1] = calls[s + 1].weight[2]
              /\ calls[s + 1].draw =
                    renderChar(cfg, charObj,
                               Progress(frame.index, s, n, charObj.index,
                                        CharsPerSecond(cfg), cfg.fps, RevealFrames(cfg)),
                               frame.index, frame.visibleCount, Len(text))

\* the character was fully revealed on the frame before
SettledBefore(frame, charObj) ==
    (frame.index - 1) * CharsPerSecond(cfg) - charObj.index * cfg.fps
      >= RevealFrames(cfg) * CharsPerSecond(cfg)

BlurOf(c) == IF c.motionBlur = Absent THEN 0 ELSE Val(c.motionBlur)

\* C28: with motionBlur > 0 every frame f > 0, of a single-block render and of
\* a timeline render with or without an active block, blends the history
\* buffer once, at globalAlpha = motionBlur, and the buffer then holds the
\* raster of frame f - 1, captured after all of that frame's drawing; the
\* frame's own snapshot replaces it before the next frame; frame 0 and renders
\* with motionBlur 0 or unset blend nothing.
HistoryIsPreviousFrame ==
    lastFrame.index >= 0 =>
      LET blends == StepsNamed(lastFrame, "drawHistory")
          snaps == StepsNamed(lastFrame, "snapshot")
          n == Len(lastFrame.ops)
      IN  /\ (BlurOf(cfg) > 0 /\ lastFrame.index > 0) =>
                /\ Len(blends) = 1
                /\ blends[1].src = lastFrame.index - 1
                /\ blends[1].alpha = BlurOf(cfg)
          /\ (BlurOf(cfg) <= 0 \/ lastFrame.index = 0) => blends = <<>>
          /\ BlurOf(cfg) > 0 =>
                /\ Len(snaps) = 1
                /\ lastFrame.ops[n - 1] = snaps[1]
                /\ snaps[1].src = lastFrame.index
                /\ history = lastFrame.index
          /\ BlurOf(cfg) <= 0 => snaps = <<>> /\ history = -1

\* a timeline frame between blocks blends the frame before it
GapFrameBlendsHistory ==
    /\ entry = "renderTimeline"
    /\ lastFrame.block = -1
    /\ lastFrame.index >= 2
    /\ \E k \in 1..Len(lastFrame.ops) :
         /\ lastFrame.ops[k].op = "drawHistory"
         /\ lastFrame.ops[k].src = lastFrame.index - 1
         /\ lastFrame.ops[k].alpha = 10

\* C29 (as claimed): with a margin in effect and motionBlur > 0, every history
\* blend, in a single-block render and in a timeline render with or without
\* an active block, puts the buffer at the canvas position (0, 0) it was
\* captured from.
HistoryBlendedInPlace ==
    (lastFrame.index >= 0 /\ BlurOf(cfg) > 0 /\ (marginX > 0 \/ marginY > 0)) =>
      \A k \in 1..Len(lastFrame.ops) :
        lastFrame.ops[k].op = "drawHistory" =>
          lastFrame.ops[k].x = 0 /\ lastFrame.ops[k].y = 0

\* the place of a step in the claimed order
StepRank(name) ==
    CASE name \in {"fillRect", "clearRect"} -> 1
      [] name = "drawHistory" -> 2
      [] name = "translate" -> 3
      [] name = "redLayer" -> 4
      [] name = "blueLayer" -> 5
      [] name = "mainLayer" -> 6
      [] name = "cursor" -> 7
      [] name = "snapshot" -> 8
      [] name = "write" -> 9

StepRanks(frame) == { StepRank(frame.ops[k].op) : k \in 1..Len(frame.ops) }

\* C30: every frame of a single-block render takes its compositing steps in
\* the order background, history blend, shake translation, red layer at
\* -chroma, blue layer at +chroma, main text layer, cursor, history snapshot,
\* stream write, none of them twice; background, translation, main layer and
\* write on every frame, the history blend only with motionBlur > 0 on a frame
\* f > 0, the chroma layers only with chroma > 0, the cursor only when enabled
\* and blink-on, the snapshot only with motionBlur > 0.
CompositingOrder ==
    (entry = "renderVideo" /\ lastFrame.index >= 0) =>
      LET ops == lastFrame.ops
          ranks == StepRanks(lastFrame)
          chroma == IF cfg.chroma = Absent THEN 0 ELSE Val(cfg.chroma)
          speed == IF cfg.cursorSpeed = Absent THEN 1 ELSE Val(cfg.cursorSpeed)
      IN  /\ \A k \in 1..(Len(ops) - 1) : StepRank(ops[k].op) < StepRank(ops[k + 1].op)
          /\ {1, 3, 6, 9} \subseteq ranks
          /\ 2 \in ranks => BlurOf(cfg) > 0 /\ lastFrame.index > 0
          /\ (4 \in ranks \/ 5 \in ranks) => chroma > 0 /\ {4, 5} \subseteq ranks
          /\ \A k \in 1..Len(ops) :
                /\ ops[k].op = "redLayer" => ops[k].x = -chroma
                /\ ops[k].op = "blueLayer" => ops[k].x = chroma
                /\ ops[k].op = "translate" =>
                      ops[k].x = lastFrame.shakeX /\ ops[k].y = lastFrame.shakeY
          /\ 7 \in ranks =>
                /\ cfg.showCursor
                /\ ((lastFrame.index * 2 * speed) \div cfg.fps) % 2 = 0
          /\ 8 \in ranks => BlurOf(cfg) > 0

\* a frame that takes all nine steps
AllStepsTaken ==
    /\ entry = "renderVideo"
    /\ lastFrame.index >= 1
    /\ StepRanks(lastFrame) = 1..9
    /\ Len(lastFrame.layer) > 0

\* C31: on frame f of a single-block render the cursor is drawn exactly when
\* showCursor is set and floor(f / (fps / (2 * cursorSpeed))) is even, with
\* cursorSpeed 1 when unset; it is drawn once, by the main text layer right
\* after its characters, and by no chromatic-aberration layer.
CursorBlinks ==
    (entry = "renderVideo" /\ lastFrame.index >= 0) =>
      LET ops == lastFrame.ops
          speed == IF cfg.cursorSpeed = Absent THEN 1 ELSE Val(cfg.cursorSpeed)
          on == cfg.showCursor /\ ((lastFrame.index * 2 * speed) \div cfg.fps) % 2 = 0
          at == { k \in 1..Len(ops) : ops[k].op = "cursor" }
      IN  /\ Cardinality(at) = IF on THEN 1 ELSE 0
          /\ \A k \in at : k > 1 /\ ops[k - 1].op = "mainLayer"

\* the cursor drawn on a later blink-on frame, over chroma layers, in a render
\* whose cursor blinks off in between
CursorDrawnAfterBlinkOff ==
    /\ entry = "renderVideo"
    /\ cfg.showCursor
    /\ cfg.cursorSpeed = Absent
    /\ lastFrame.index >= 2
    /\ {4, 5, 6, 7} \subseteq StepRanks(lastFrame)

\* the characters of the frame with a resolved opacity above 0
VisibleIndexes(frame) ==
    { frame.decisions[k].index : k \in { j \in 1..Len(frame.decisions) :
                                           frame.decisions[j].opacity[1] > 0 } }

\* C32 (as claimed): whenever the cursor is drawn on a frame with a visible
\* character, in any style and in both renderers, it stands just past the
\* character of highest index whose resolved opacity on that frame is not 0.
CursorFollowsLastVisible ==
    (ShowsText(lastFrame) /\ VisibleIndexes(lastFrame) # {}) =>
      \A k \in 1..Len(lastFrame.ops) :
        lastFrame.ops[k].op = "cursor" =>
          \E last \in VisibleIndexes(lastFrame) :
            /\ \A i \in VisibleIndexes(lastFrame) : i <= last
            /\ lastFrame.ops[k].x = last + 1

\* the text being revealed on a frame that shows text
ActiveText(frame) ==
    IF entry = "renderVideo"
      THEN extractTextAndColors(cfg.rawText)
      ELSE extractTextAndColors(timelineData[frame.block + 1].text)

\* what the layout of the frame has to be computed from
FreshLayoutText(frame) ==
    IF StyleOf(cfg) = "default"
      THEN SubSeq(ActiveText(frame), 1, frame.visibleCount)
      ELSE ActiveText(frame)

\* C33: after every frame that draws text, in both renderers, the cached
\* layout and the cached character list are those of the active text (in
\* default style of its first visibleCount characters) and lastVisibleCount is
\* the frame's visibleCount; so a change of block recomputes the layout also
\* when visibleCount is what it was on the frame before.
LayoutCacheFresh ==
    ShowsText(lastFrame) =>
      /\ cachedLayout = Some(FreshLayoutText(lastFrame))
      /\ Len(cachedFlatChars) = Len(FreshLayoutText(lastFrame))
      /\ \A k \in 1..Len(cachedFlatChars) :
            /\ cachedFlatChars[k].index = k - 1
            /\ cachedFlatChars[k].char = FreshLayoutText(lastFrame)[k]
      /\ lastVisibleCount = lastFrame.visibleCount
      /\ Len(lastFrame.decisions) = Len(cachedFlatChars)

\* the first frame of a second block, no character counted visible, as on the
\* last frame of the empty block before it, and the whole text laid out
NewBlockSameCount ==
    /\ entry = "renderTimeline"
    /\ StyleOf(cfg) # "default"
    /\ lastFrame.block = 1
    /\ lastFrame.visibleCount = 0
    /\ timelineData[1].text = <<>>
    /\ Len(cachedFlatChars) = 3

\* C34: a timeline frame with no active block draws the background and, with
\* motionBlur > 0 on a frame f > 0, the history, and nothing else: no text
\* layer and no cursor; it leaves cachedLayout, cachedFlatChars and
\* lastVisibleCount as they were, and it is written to the stream like any
\* other frame.
GapFrameBackgroundOnly ==
    /\ [](( /\ entry = "renderTimeline"
            /\ lastFrame.index >= 0
            /\ lastFrame.block = -1) =>
             /\ StepRanks(lastFrame) \subseteq {1, 2, 8, 9}
             /\ {1, 9} \subseteq StepRanks(lastFrame)
             /\ 2 \in StepRanks(lastFrame) <=> (BlurOf(cfg) > 0 /\ lastFrame.index > 0)
             /\ lastFrame.decisions = <<>>
             /\ lastFrame.layer = <<>>
             /\ written # <<>>
             /\ written[Len(written)] = lastFrame.index)
    /\ [][( /\ entry = "renderTimeline"
            /\ ComposesFrame
            /\ lastFrame'.block = -1) =>
             /\ UNCHANGED <<cachedLayout, cachedFlatChars, lastVisibleCount>>
             /\ written' = Append(written, lastFrame'.index)
             /\ Len(written') <= totalFrames]_vars

\* a gap frame after a block: the block's layout is still cached
GapFrameAfterBlock ==
    /\ entry = "renderTimeline"
    /\ lastFrame.block = -1
    /\ lastFrame.index >= 1
    /\ BlurOf(cfg) > 0
    /\ cachedFlatChars # <<>>
    /\ written[Len(written)] = lastFrame.index

\* C35: in a timeline render the index (in startTime order) of the active
\* block never decreases: the block of a frame is the first one that contains
\* the frame's time, from one frame to the next it can only stay or rise, and
\* no frame still to come falls into a block of lower index.
ActiveIndexNeverDecreases ==
    /\ [](( /\ entry = "renderTimeline"
            /\ lastFrame.index >= 0) =>
             /\ lastFrame.block = CurrentBlockIndex(timelineData, lastFrame.index, cfg.fps)
             /\ lastFrame.block # -1 =>
                   \A later \in (lastFrame.index + 1)..(totalFrames - 1) :
                     \A i \in 1..lastFrame.block :
                       ~Contains(timelineData[i], later, cfg.fps))
    /\ [][( /\ entry = "renderTimeline"
            /\ ComposesFrame
            /\ lastFrame.index >= 0
            /\ lastFrame.block # -1
            /\ lastFrame'.block # -1) => lastFrame'.block >= lastFrame.block]_vars

\* the second of two overlapping blocks has taken over from the first
SecondOverlappingBlockActive ==
    /\ entry = "renderTimeline"
    /\ lastFrame.block = 1
    /\ \E earlier \in 0..(lastFrame.index - 1) :
         /\ Contains(timelineData[1], earlier, cfg.fps)
         /\ Contains(timelineData[2], earlier, cfg.fps)

\* C37 (as claimed): two renderVideo calls given the same output path and
\* interleaved at their awaits never hand the same path to their encoders.
ConcurrentPathsDistinct ==
    (spawnCount > 0 /\ rival.pc = "running") => outputPath # rival.outputPath

(***************************************************************************)
(* The timeline editor.                                                    *)
(***************************************************************************)
BlockIndexes == 1..Len(timelineBlocksData)

RightEdge(b) == b.start + b.duration

\* the branch of the mousemove listener that block i takes in this step
Drags(i) == interaction[i].isDragging
ResizesLeft(i) == ~Drags(i) /\ interaction[i].isResizingLeft
ResizesRight(i) == ~Drags(i) /\ ~ResizesLeft(i) /\ interaction[i].isResizingRight

MouseMoveStep ==
    /\ timelineBlocksData # <<>>
    /\ interaction' = interaction
    /\ liveVideoCache' = liveVideoCache
    /\ preloading' = preloading
    /\ \E i \in BlockIndexes : Engaged(interaction[i])

BlocksValid ==
    \A i \in BlockIndexes :
        timelineBlocksData[i].start >= 0 /\ timelineBlocksData[i].duration >= MinDuration

GestureKeepsOtherSide ==
    MouseMoveStep =>
        \A i \in BlockIndexes :
            /\ Drags(i) => timelineBlocksData'[i].duration = timelineBlocksData[i].duration
            /\ ResizesLeft(i) =>
                   RightEdge(timelineBlocksData'[i]) = RightEdge(timelineBlocksData[i])
            /\ ResizesRight(i) => timelineBlocksData'[i].start = timelineBlocksData[i].start

\* C38 (as claimed): whatever mousedown, mousemove and mouseup events arrive, a
\* block keeps start >= 0 and duration >= 0.2 s; a left-resize leaves its
\* right edge where it was, a right-resize its start and a drag its duration.
GesturesKeepBlocksValid == [][BlocksValid' /\ GestureKeepsOtherSide]_vars

ExportedEnd(i) ==
    exporting.timelineExportData[i].startTime + exporting.timelineExportData[i].duration

\* C36 (as claimed): the block list handed to the renderer is in ascending
\* startTime order and no two of its intervals [startTime, startTime + duration]
\* overlap, whatever drags and resizes came before.
ExportSortedAndDisjoint ==
    \A i, j \in 1..Len(exporting.timelineExportData) :
        i < j =>
            /\ exporting.timelineExportData[i].startTime
                   <= exporting.timelineExportData[j].startTime
            /\ ExportedEnd(i) < exporting.timelineExportData[j].startTime

NoGesture == \A i \in BlockIndexes : ~Engaged(interaction[i])

\* C39 (as claimed): once no preview build is pending and no gesture is under
\* way, a preview cached for a block's text was built with that block's
\* current duration.
CachedPreviewsMatchDuration ==
    (~preloading.isPreloadingVideos /\ NoGesture) =>
        \A i \in BlockIndexes :
            liveVideoCache[timelineBlocksData[i].text].kind = "url" =>
                liveVideoCache[timelineBlocksData[i].text].blockDuration
                    = timelineBlocksData[i].duration

\* the step of a seek click made while audio is playing
SeekWhilePlaying ==
    /\ playback.isPlaying
    /\ Len(playback'.sources) > Len(playback.sources)

\* the 'ended' callback of a source that a seek had stopped runs in this step
EndedAfterSeek ==
    \E i \in 1..(Len(playback.sources) - 1) :
        /\ playback.sources[i + 1].by = "seek"
        /\ playback.sources[i].state = "stopped"
        /\ playback'.sources[i].state = "ended"

\* C40 (as claimed): a seek click while audio is playing leaves isPlaying true,
\* pauseTimeOffset at the seek position and the playhead loop scheduled, and
\* the 'ended' callback of the source the seek stopped changes none of these.
SeekKeepsPlaying ==
    [][/\ SeekWhilePlaying =>
            /\ playback'.isPlaying
            /\ playback'.pauseTimeOffset = playback'.sources[playback'.audioSource].offset
            /\ playback'.animationFrame
       /\ EndedAfterSeek =>
            /\ playback'.isPlaying = playback.isPlaying
            /\ playback'.pauseTimeOffset = playback.pauseTimeOffset
            /\ playback'.animationFrame = playback.animationFrame]_vars


====
